---------------------------- MODULE Spec2Model ----------------------------
(***************************************************************************)
(* State-machine models of components of the workbench sources:           *)
(*   - BaseWatcher            (platform/files/node/watcher/baseWatcher.ts)*)
(*   - UtilityProcess         (sharedProcessWorkerService.ts, 2nd unit)   *)
(*   - ConfigurationEditingService and FileService2                       *)
(*                            (configurationEditingService.ts)            *)
(*   - InlineChatDecorationsContribution (inlineChatDecorations.ts)       *)
(*   - SCMRepositoryGraphController      (scmHistory.ts)                  *)
(*   - resolveLanguagePackLocale (base/node/nls.js), _format (nls.ts)     *)
(* Every component has its own specification (SpecWatcher, SpecUtility,   *)
(* SpecConfig, SpecFile, SpecRegistry, SpecChat, SpecScm, ...); the       *)
(* variables of the other components keep their initial value under it.   *)
(***************************************************************************)
EXTENDS Integers, Sequences, FiniteSets, TLC

VARIABLES
    \* ---- BaseWatcher
    allWatchRequests,        \* Set<IUniversalWatchRequest>
    suspendedWatchRequests,  \* DisposableMap: request -> index of its monitor (0: absent)
    monitors,                \* the closures created by monitorSuspendedWatchRequest
    lastDoWatch,             \* argument of the most recent doWatch call
    wOp,                     \* what the most recent watcher handler did
    \* ---- UtilityProcess
    canUseUtilityProcess,    \* electronTypes.canUseUtilityProcess
    windowState,             \* the windows known to IWindowsMainService
    process,                 \* this.process: 0 (undefined) or the number of the fork
    processPid,              \* this.processPid
    configuration,           \* this.configuration
    didExit,                 \* this.didExit
    childState,              \* the forked child as the operating system sees it
    forkCount,               \* calls of ElectronUtilityProcess.fork
    wait,                    \* the waitForExit call in progress or last returned
    uOp,                     \* what the most recent UtilityProcess call or event did
    \* ---- ConfigurationEditingService
    workspaceOpen,           \* contextService.getWorkspace() is defined
    configFiles,             \* the configuration files: on disk and in the editor
    cOp,                     \* the most recent writeConfiguration call and what it did
    \* ---- FileService2
    provider,                \* this.provider: scheme -> registered provider (capabilities)
    disk,                    \* what each provider stores: scheme -> set of entries
    fOp,                     \* the most recent FileService2 call and what it did
    legacy,                  \* this._legacy: "none" until setLegacyService, then "set"
    legacyProvider,          \* the schemes registered with the legacy service
    registrations,           \* the disposables handed out by registerProvider
    rOp,                     \* the most recent registry call and what it did
    \* ---- InlineChatDecorationsContribution
    showGutterIcon,          \* configurationService.getValue('inlineChat.showGutterIcon')
    gutterDecorationID,      \* this.gutterDecorationID: 0 (undefined) or a decoration id
    cursorChangeListeners,   \* listeners of this contribution on onDidChangeCursorSelection
    clickChangeListeners,    \* listeners of this contribution on onMouseDown
    latestAttached,          \* the listeners held in the two fields are still attached
    isDisposed,              \* dispose() has been called
    selection,               \* editor.getSelection(): 0 (null) or a selection
    decorations,             \* the decorations of the editor's model
    decorationIds,           \* decoration ids handed out by the editor so far
    iOp,                     \* the most recent handler of the contribution and what it did
    \* ---- SCMRepositoryGraphController
    colorIndex,              \* this._colorIndex
    swimlanes,               \* outputSwimlanes of the last of this._historyItems (or <<>>)
    allocated,               \* the colours getGraphColorIndex returned since the last reset
    sOp,                     \* the most recent controller call and the view models it added
    \* ---- functions without state (resolveLanguagePackLocale, _format)
    pureCall,                \* the function called and its arguments
    pureResult,              \* what the call returned, <<"pending">> before it ran
    \* ---- resolveNLSConfiguration (base/node/nls.js)
    nlsCache,                \* the language pack cache below the user data path
    nlsOp,                   \* the most recent process start and how its promise settled
    \* ---- SharedProcessWorkerService (sharedProcessWorkerService.ts)
    workers,                 \* per createWorker call: the channel's ports, the messages and the logs
    kOp,                     \* the most recent call or worker event
    \* ---- ScmMultiDiffSourceResolver (multiDiffSourceResolver)
    diffEnv,                 \* SCM repositories, the named provider's groups, the view's activities
    diffResolve,             \* the resolveDiffSource call: where it waits and what it has observed
    \* ---- createHtmlProject (html-language-features/server/src/modes/project.ts)
    htmlDocuments,           \* server.documents: the version of each synced document, 0 if not synced
    htmlProject,             \* projectVersion, currentRootFiles, languageServicePromise, the services
    hOp,                     \* the most recent step of the project
    \* ---- Emmet extension (emmet/src/extension)
    emmet,                   \* the build, the setting, the activation, the registrations
    eOp,                     \* the most recent step of the extension
    \* ---- ChatInputPart (chat/browser/chatInputPart.ts)
    inputHistory,            \* the entries of this.history, oldest first, and its cursor
    inputEditor,             \* the value of the input editor, the texts and the steps so far
    \* ---- FileService2.resolveFile (doResolveFile, toFileStat)
    treeProvider,            \* what the provider of the resolved resource stores
    treeResolve,             \* the resolveFile call: its options and the toFileStat calls to run,
                             \* and whether it has run an even (0) or odd (1) number of them
    \* ---- PreferencesEditorContribution (preferences/browser/preferencesEditor.ts)
    prefs,                   \* the editor's model, this.preferencesRenderer, the renderers made
    pOp                      \* the most recent step of the contribution

watcherVars == <<allWatchRequests, suspendedWatchRequests, monitors, lastDoWatch, wOp>>

utilityVars == <<canUseUtilityProcess, windowState, process, processPid, configuration,
                 didExit, childState, forkCount, wait, uOp>>

configVars == <<workspaceOpen, configFiles, cOp>>

registryVars == <<legacy, legacyProvider, registrations, rOp>>

fileVars == <<provider, disk, fOp, registryVars>>

chatVars == <<showGutterIcon, gutterDecorationID, cursorChangeListeners, clickChangeListeners,
              latestAttached, isDisposed, selection, decorations, decorationIds, iOp>>

scmVars == <<colorIndex, swimlanes, allocated, sOp>>

pureVars == <<pureCall, pureResult>>

nlsVars == <<nlsCache, nlsOp>>

workerVars == <<workers, kOp>>

diffVars == <<diffEnv, diffResolve>>

htmlVars == <<htmlDocuments, htmlProject, hOp>>

emmetVars == <<emmet, eOp>>

inputVars == <<inputHistory, inputEditor>>

treeVars == <<treeProvider, treeResolve>>

prefsVars == <<prefs, pOp>>

lateVars == <<treeVars, prefsVars>>

workbenchVars ==
    <<chatVars, scmVars, pureVars, nlsVars, workerVars, diffVars, htmlVars, emmetVars,
      inputVars, lateVars>>

vars == <<watcherVars, utilityVars, configVars, fileVars, workbenchVars>>

(***************************************************************************)
(* JavaScript values that may be undefined are tagged tuples.             *)
(***************************************************************************)
Undefined == <<"undefined">>
Num(n) == <<"number", n>>
TypeOf(v) == v[1]

(***************************************************************************)
(*                              BaseWatcher                               *)
(***************************************************************************)

\* Most monitors (suspensions) created in one run of the model.
MaxMonitors == 2

\* The watch requests of the model: two correlated ones, one without correlationId.
Requests ==
    { [path |-> "/p1", correlationId |-> Num(1)],
      [path |-> "/p2", correlationId |-> Num(2)],
      [path |-> "/p3", correlationId |-> Undefined] }

\* fs.Stats as far as the watcher reads it: a missing path (all zero), an existing
\* one, and one with a zero change time but an inode.
StatsValues ==
    { [ctimeMs |-> 0, ino |-> 0], [ctimeMs |-> 1, ino |-> 1], [ctimeMs |-> 0, ino |-> 1] }

ZeroStats == [ctimeMs |-> 0, ino |-> 0]

\* Record of a handler run: which handler, on which request or monitor, with which
\* stats (a poll), the change events it fired and whether it called doWatch.
NoOp == [op |-> "none", request |-> Undefined, monitor |-> 0,
         curr |-> ZeroStats, prev |-> ZeroStats,
         fired |-> <<>>, doWatch |-> FALSE]

WatcherInit ==
    /\ allWatchRequests = {}
    /\ suspendedWatchRequests = [r \in Requests |-> 0]
    /\ monitors = <<>>
    /\ lastDoWatch = {}
    /\ wOp = NoOp

\* A watcher that takes every request for correlated.
isCorrelatedAlways(request) == TRUE

isCorrelated(request) == TypeOf(request.correlationId) = "number"

isPathNotFound(stats) == stats.ctimeMs = 0 /\ stats.ino = 0

\* A DisposableMap that forgets the entries without disposing their stores.
DeleteWithoutDispose(map, ms, rs) ==
    [map |-> [r \in Requests |-> IF r \in rs THEN 0 ELSE map[r]], ms |-> ms]

\* DisposableMap.deleteAndDispose for every request of rs, on (map, monitors).
DeleteAndDisposeAll(map, ms, rs) ==
    [map |-> [r \in Requests |-> IF r \in rs THEN 0 ELSE map[r]],
     ms  |-> [i \in DOMAIN ms |->
                IF \E r \in rs : map[r] = i
                THEN [ms[i] EXCEPT !.isDisposed = TRUE, !.watching = FALSE]
                ELSE ms[i]]]

\* A doWatch call that is handed the whole batch.
updateWatchersUnfiltered(all, map) == all

\* updateWatchers(): the argument doWatch receives.
updateWatchers(all, map) == {r \in all : map[r] = 0}

\* watch(requests)
Watch(requests) ==
    LET gone == {r \in Requests : suspendedWatchRequests[r] # 0 /\ r \notin requests}
        d    == DeleteAndDisposeAll(suspendedWatchRequests, monitors, gone)
    IN  /\ allWatchRequests' = requests
        /\ suspendedWatchRequests' = d.map
        /\ monitors' = d.ms
        /\ lastDoWatch' = updateWatchers(requests, d.map)
        /\ wOp' = [NoOp EXCEPT !.op = "watch", !.doWatch = TRUE]

\* suspendWatchRequest(request); installed: whether fs.watchFile() did not throw.
suspendWatchRequest(request, installed) ==
    IF suspendedWatchRequests[request] # 0
    THEN /\ UNCHANGED <<suspendedWatchRequests, monitors, lastDoWatch>>
         /\ wOp' = [NoOp EXCEPT !.op = "fail", !.request = request]
    ELSE LET i   == Len(monitors) + 1
             map == [suspendedWatchRequests EXCEPT ![request] = i]
         IN  /\ suspendedWatchRequests' = map
             /\ monitors' = Append(monitors,
                    [request |-> request, isDisposed |-> FALSE, pathNotFound |-> FALSE,
                     installed |-> installed, watching |-> installed, added |-> 0])
             /\ lastDoWatch' = updateWatchers(allWatchRequests, map)
             /\ wOp' = [NoOp EXCEPT !.op = "fail", !.request = request,
                                    !.monitor = i, !.doWatch = TRUE]

\* handleDidWatchFail(request): the listener of onDidWatchFail.  The subclass
\* reports a failure for a request of the batch it was asked to watch.
DidWatchFail(request, installed) ==
    /\ request \in allWatchRequests
    /\ UNCHANGED allWatchRequests
    /\ IF ~isCorrelated(request)
       THEN /\ UNCHANGED <<suspendedWatchRequests, monitors, lastDoWatch>>
            /\ wOp' = [NoOp EXCEPT !.op = "fail", !.request = request]
       ELSE /\ Len(monitors) < MaxMonitors \/ suspendedWatchRequests[request] # 0
            /\ suspendWatchRequest(request, installed)

\* Whether the callback sees the path created (lines 106-108).
PathCreated(m, curr, prev) ==
    \/ isPathNotFound(prev) /\ ~isPathNotFound(curr)
    \/ m.pathNotFound /\ ~isPathNotFound(curr) /\ ~isPathNotFound(prev)

\* Mutant: resume that forgets suspendedWatchRequests.deleteAndDispose(request).
resumeWatchRequestKeepsPolling(request, ms) ==
    /\ UNCHANGED suspendedWatchRequests
    /\ monitors' = ms
    /\ lastDoWatch' = updateWatchers(allWatchRequests, suspendedWatchRequests)

\* resumeWatchRequest(request), on the monitors ms already updated by the caller.
resumeWatchRequest(request, ms) ==
    LET d == DeleteAndDisposeAll(suspendedWatchRequests, ms, {request})
    IN  /\ suspendedWatchRequests' = d.map
        /\ monitors' = d.ms
        /\ lastDoWatch' = updateWatchers(allWatchRequests, d.map)

\* A callback that never returns early.
returnsEarlyNever(m) == FALSE

\* if (disposables.isDisposed) { return; } (lines 96-98)
returnsEarly(m) == m.isDisposed

\* watchFileCallback(curr, prev) of monitor i.  fs.watchFile delivers it while the
\* listener is installed; a delivery may also arrive after unwatchFile (in flight).
WatchFileCallback(i, curr, prev) ==
    LET m == monitors[i] IN
    /\ m.installed
    /\ UNCHANGED allWatchRequests
    /\ IF returnsEarly(m)
       THEN /\ UNCHANGED <<suspendedWatchRequests, monitors, lastDoWatch>>
            /\ wOp' = [NoOp EXCEPT !.op = "poll", !.request = m.request, !.monitor = i,
                                   !.curr = curr, !.prev = prev]
       ELSE LET seen == [monitors EXCEPT ![i].pathNotFound = isPathNotFound(curr)]
                event == [resource |-> m.request.path, type |-> "ADDED",
                          cId |-> m.request.correlationId]
            IN  IF PathCreated(m, curr, prev)
                THEN /\ resumeWatchRequest(m.request,
                                           [seen EXCEPT ![i].added = @ + 1])
                     /\ wOp' = [op |-> "poll", request |-> m.request, monitor |-> i,
                                curr |-> curr, prev |-> prev,
                                fired |-> <<event>>, doWatch |-> TRUE]
                ELSE /\ monitors' = seen
                     /\ UNCHANGED <<suspendedWatchRequests, lastDoWatch>>
                     /\ wOp' = [NoOp EXCEPT !.op = "poll", !.request = m.request,
                                            !.monitor = i, !.curr = curr, !.prev = prev]

\* stop(): suspendedWatchRequests.clearAndDisposeAll()
Stop ==
    LET d == DeleteAndDisposeAll(suspendedWatchRequests, monitors, Requests)
    IN  /\ suspendedWatchRequests' = d.map
        /\ monitors' = d.ms
        /\ UNCHANGED <<allWatchRequests, lastDoWatch>>
        /\ wOp' = [NoOp EXCEPT !.op = "stop"]

(***************************************************************************)
(*                             UtilityProcess                             *)
(***************************************************************************)

WindowIds == {1, 2}

\* The IUtilityProcessConfiguration values callers pass to start().
Configurations ==
    { [responseWindowId |-> 1, type |-> "extensionHost",
       correlationId |-> <<"string", "1">>],
      [responseWindowId |-> 2, type |-> "fileWatcher", correlationId |-> Undefined] }

ExitCodes == {0, 1}

\* window: the responseWindowId of the configuration passed to start(), else 0.
NoCall == [op |-> "none", window |-> 0, threw |-> FALSE, logged |-> <<>>, forked |-> FALSE,
           ports |-> FALSE, killed |-> FALSE, emitted |-> <<>>]

NoWait == [pc |-> "idle", by |-> "none", killed |-> FALSE]

UtilityInit ==
    /\ canUseUtilityProcess \in BOOLEAN
    /\ windowState \in [WindowIds -> {"ok", "destroyed"}]
    /\ process = 0
    /\ processPid = Undefined
    /\ configuration = Undefined
    /\ didExit = FALSE
    /\ childState = "none"
    /\ forkCount = 0
    /\ wait = NoWait
    /\ uOp = NoCall

UtilityIdle ==
    /\ canUseUtilityProcess = TRUE
    /\ windowState = [w \in WindowIds |-> "ok"]
    /\ process = 0
    /\ processPid = Undefined
    /\ configuration = Undefined
    /\ didExit = FALSE
    /\ childState = "none"
    /\ forkCount = 0
    /\ wait = NoWait
    /\ uOp = NoCall

\* Mutant: validateCanStart without the `if (this.process)` refusal.
validateCanStartIgnoresProcess(cfg) ==
    IF ~canUseUtilityProcess THEN "throw"
    ELSE IF windowState[cfg.responseWindowId] # "ok" THEN "noWindow"
    ELSE "ok"

\* validateCanStart(configuration): "throw", a refusal that is logged, or "ok".
validateCanStart(cfg) ==
    IF ~canUseUtilityProcess THEN "throw"
    ELSE IF process # 0 THEN "running"
    ELSE IF windowState[cfg.responseWindowId] # "ok" THEN "noWindow"
    ELSE "ok"

\* start(configuration)
Start(cfg) ==
    LET v == validateCanStart(cfg) IN
    /\ UNCHANGED <<canUseUtilityProcess, windowState, processPid, didExit, wait>>
    /\ IF v = "ok"
       THEN /\ configuration' = cfg
            /\ process' = forkCount + 1
            /\ forkCount' = forkCount + 1
            /\ childState' = "forked"
            /\ uOp' = [NoCall EXCEPT !.op = "start", !.window = cfg.responseWindowId,
                                     !.logged = <<"Info">>,
                                     !.forked = TRUE, !.ports = TRUE]
       ELSE /\ UNCHANGED <<configuration, process, forkCount, childState>>
            /\ uOp' = [NoCall EXCEPT !.op = "start", !.window = cfg.responseWindowId,
                          !.threw = (v = "throw"),
                          !.logged = IF v = "throw" THEN <<>> ELSE <<"Error">>]

\* The 'spawn' listener (lines 297-301).
Spawn ==
    /\ childState = "forked"
    /\ childState' = "spawned"
    /\ processPid' = Num(100 + process)
    /\ uOp' = [NoCall EXCEPT !.op = "spawn", !.logged = <<"Info">>]
    /\ UNCHANGED <<canUseUtilityProcess, windowState, process, configuration, didExit,
                   forkCount, wait>>

\* Mutant: the continuation of waitForExit kills without looking at didExit.
AfterRaceAlwaysKills(exited) == TRUE

\* The continuation of waitForExit after the race (lines 396-399): whether it
\* calls kill(), given the value of this.didExit it reads.
AfterRaceKills(exited) == ~exited

\* The 'exit' listener (lines 304-310); a pending waitForExit resumes on onExit.
Exit(code) ==
    /\ childState \in {"forked", "spawned"}
    /\ childState' = "exited"
    /\ didExit' = TRUE
    /\ uOp' = [NoCall EXCEPT !.op = "exit", !.logged = <<"Info">>,
                  !.emitted = <<[event |-> "exit", pid |-> processPid, code |-> code]>>]
    /\ wait' = IF wait.pc = "waiting"
               THEN [pc |-> "returned", by |-> "exit", killed |-> AfterRaceKills(TRUE)]
               ELSE wait
    /\ UNCHANGED <<canUseUtilityProcess, windowState, process, processPid, configuration,
                   forkCount>>

\* The details of a 'child-process-gone' notification of the app: for this
\* instance's service or for another child process.
GoneDetails ==
    [type : {"Utility", "GPU"}, name : {"serviceName", "otherName"},
     reason : {"crashed", "launch-failed"}, exitCode : ExitCodes]

\* details.type === 'Utility' && details.name === serviceName (line 314)
isOwnService(details) == details.type = "Utility" /\ details.name = "serviceName"

\* The 'child-process-gone' listener (lines 313-335), registered with the app
\* by start().  The service of this instance is reported gone once it has been
\* forked: with reason launch-failed if it was never spawned.
ChildProcessGone(details) ==
    /\ process # 0
    /\ isOwnService(details) =>
          /\ childState \in {"forked", "spawned", "exited"}
          /\ details.reason = "launch-failed" <=> processPid = Undefined
    /\ uOp' = IF isOwnService(details)
              THEN [NoCall EXCEPT !.op = "childProcessGone", !.logged = <<"Error">>,
                       !.emitted = <<[event |-> "crash", pid |-> processPid,
                                      code |-> details.exitCode]>>]
              ELSE [NoCall EXCEPT !.op = "childProcessGone"]
    /\ UNCHANGED <<canUseUtilityProcess, windowState, process, processPid, configuration,
                   didExit, childState, forkCount, wait>>

\* kill(), called from outside
Kill ==
    /\ uOp' = IF process = 0
              THEN [NoCall EXCEPT !.op = "kill", !.logged = <<"Warning">>]
              ELSE [NoCall EXCEPT !.op = "kill", !.logged = <<"Info">>, !.killed = TRUE]
    /\ UNCHANGED <<canUseUtilityProcess, windowState, process, processPid, configuration,
                   didExit, childState, forkCount, wait>>

\* waitForExit(maxWaitTimeMs) up to its await (lines 383-394).
WaitForExitStart ==
    IF process = 0 THEN [pc |-> "returned", by |-> "noProcess", killed |-> FALSE]
    ELSE IF didExit THEN [pc |-> "returned", by |-> "didExit", killed |-> FALSE]
    ELSE [pc |-> "waiting", by |-> "none", killed |-> FALSE]

WaitForExit ==
    /\ wait.pc # "waiting"
    /\ wait' = WaitForExitStart
    /\ uOp' = [NoCall EXCEPT !.op = "waitForExit",
                  !.logged = IF process = 0 THEN <<"Warning">>
                             ELSE IF didExit THEN <<>> ELSE <<"Info">>]
    /\ UNCHANGED <<canUseUtilityProcess, windowState, process, processPid, configuration,
                   didExit, childState, forkCount>>

\* timeout(maxWaitTimeMs) wins the race: the continuation runs in the same turn.
WaitTimeout ==
    /\ wait.pc = "waiting"
    /\ wait' = [pc |-> "returned", by |-> "timeout", killed |-> AfterRaceKills(didExit)]
    /\ uOp' = [NoCall EXCEPT !.op = "waitTimeout",
                  !.logged = IF AfterRaceKills(didExit) THEN <<"Info", "Info">> ELSE <<>>,
                  !.killed = AfterRaceKills(didExit)]
    /\ UNCHANGED <<canUseUtilityProcess, windowState, process, processPid, configuration,
                   didExit, childState, forkCount>>

\* A window is closed by the user.
CloseWindow(w) ==
    /\ windowState[w] = "ok"
    /\ windowState' = [windowState EXCEPT ![w] = "destroyed"]
    /\ uOp' = [NoCall EXCEPT !.op = "closeWindow"]
    /\ UNCHANGED <<canUseUtilityProcess, process, processPid, configuration, didExit,
                   childState, forkCount, wait>>

(***************************************************************************)
(*                      ConfigurationEditingService                       *)
(***************************************************************************)

\* Strings the service takes apart are sequences of characters.
IsPrefix(p, str) == Len(p) <= Len(str) /\ SubSeq(str, 1, Len(p)) = p
Substr(str, from) == SubSeq(str, from + 1, Len(str))

\* WORKSPACE_STANDALONE_CONFIGURATIONS: its keys in order, and their files.
StandaloneKeys == << <<"t","a","s","k","s">>, <<"l","a","u","n","c","h">> >>
StandaloneFile(key) ==
    IF key = <<"t","a","s","k","s">> THEN ".vscode/tasks.json" ELSE ".vscode/launch.json"

\* A URI, or null.
Resource(path) == <<"uri", path>>
Null == <<"null">>

\* getConfigurationKeys(): the keys of the configuration registry.
ValidKeys == { <<"f","i","l","e","s",".","e","o","l">> }

\* The keys callers write, known and unknown, standalone and not.
ConfigKeys ==
    ValidKeys \cup
    { <<>>,
      <<"x",".","y">>,
      <<"t","a","s","k","s">>,
      <<"t","a","s","k","s",".","v">>,
      <<"t","a","s","k","s","X">>,
      <<"l","a","u","n","c","h">> }

ConfigurationTargets == {"USER", "WORKSPACE"}

\* environmentService.appSettingsPath and WORKSPACE_CONFIG_DEFAULT_PATH
UserSettings == Resource("settings.json")
WorkspaceSettings == ".vscode/settings.json"
ConfigResources ==
    {UserSettings, Resource(WorkspaceSettings),
     Resource(".vscode/tasks.json"), Resource(".vscode/launch.json")}

Err(code) == <<"number", code>>

\* A configuration file: whether it exists, what it holds ("{}", well-formed
\* "json", or "broken" text with parse errors) and whether its editor is dirty.
ConfigFileStates ==
    { [exists |-> FALSE, content |-> "", dirty |-> FALSE],
      [exists |-> TRUE, content |-> "json", dirty |-> FALSE],
      [exists |-> TRUE, content |-> "json", dirty |-> TRUE],
      [exists |-> TRUE, content |-> "broken", dirty |-> FALSE],
      [exists |-> TRUE, content |-> "broken", dirty |-> TRUE] }

NoWrite == [op |-> "none", target |-> "USER", key |-> <<>>,
            operation |-> [key |-> <<>>, target |-> Null, isWorkspaceStandalone |-> FALSE],
            validation |-> [error |-> Undefined, exists |-> "undefined",
                            contents |-> "undefined"],
            updates |-> <<>>, reloaded |-> FALSE, result |-> <<"none">>]

ConfigInit ==
    /\ workspaceOpen \in BOOLEAN
    /\ configFiles \in [ConfigResources -> ConfigFileStates]
    /\ cOp = NoWrite

ConfigIdle ==
    /\ workspaceOpen = FALSE
    /\ configFiles = [r \in ConfigResources |->
                        [exists |-> FALSE, content |-> "", dirty |-> FALSE]]
    /\ cOp = NoWrite

\* contextService.toResource(workspaceRelativePath)
toResource(path) == IF workspaceOpen THEN Resource(path) ELSE Null

\* The loop of getConfigurationEditOperation over the standalone keys, from i on:
\* the operation it returns, as a sequence of one, or none.
RECURSIVE StandaloneOperation(_, _)
StandaloneOperation(key, i) ==
    IF i > Len(StandaloneKeys) THEN <<>>
    ELSE LET k == StandaloneKeys[i]
             target == toResource(StandaloneFile(k))
             keyPrefix == k \o <<".">>
         IN  IF key = k
             THEN << [key |-> <<>>, target |-> target, isWorkspaceStandalone |-> TRUE] >>
             ELSE IF IsPrefix(keyPrefix, key)
             THEN << [key |-> Substr(key, Len(keyPrefix)), target |-> target,
                      isWorkspaceStandalone |-> TRUE] >>
             ELSE StandaloneOperation(key, i + 1)

\* getConfigurationEditOperation(target, config)
getConfigurationEditOperation(target, key) ==
    LET standalone == IF key # <<>> THEN StandaloneOperation(key, 1) ELSE <<>>
    IN  IF standalone # <<>> THEN standalone[1]
        ELSE IF target = "USER"
        THEN [key |-> key, target |-> UserSettings, isWorkspaceStandalone |-> FALSE]
        ELSE [key |-> key, target |-> toResource(WorkspaceSettings),
              isWorkspaceStandalone |-> FALSE]

\* IValidationResult; exists is "true", "false" or "undefined".
NoValidation == [error |-> Undefined, exists |-> "undefined", contents |-> "undefined"]

\* json.parse(content, parseErrors): whether parseErrors.length > 0
HasParseErrors(content) == content = "broken"

\* validate: the part that reads the editor and the file (lines 161-191).
validateFile(operation) ==
    LET file == configFiles[operation.target] IN
    IF file.dirty
    THEN [NoValidation EXCEPT !.error = Err("ERROR_CONFIGURATION_FILE_DIRTY")]
    ELSE IF ~file.exists
    THEN [NoValidation EXCEPT !.exists = "false"]
    ELSE IF operation.isWorkspaceStandalone /\ operation.key = <<>>
    THEN [NoValidation EXCEPT !.exists = "true", !.contents = file.content]
    ELSE IF HasParseErrors(file.content)
    THEN [NoValidation EXCEPT !.error = Err("ERROR_INVALID_CONFIGURATION")]
    ELSE [NoValidation EXCEPT !.exists = "true", !.contents = file.content]

\* Mutant: validate that looks at the dirty editor before the key and the target.
validateDirtyFirst(target, operation) ==
    IF operation.target # Null /\ configFiles[operation.target].dirty
    THEN [NoValidation EXCEPT !.error = Err("ERROR_CONFIGURATION_FILE_DIRTY")]
    ELSE IF ~operation.isWorkspaceStandalone /\ operation.key \notin ValidKeys
    THEN [NoValidation EXCEPT !.error = Err("ERROR_UNKNOWN_KEY")]
    ELSE IF operation.isWorkspaceStandalone /\ target = "USER"
    THEN [NoValidation EXCEPT !.error = Err("ERROR_INVALID_TARGET")]
    ELSE IF target = "WORKSPACE" /\ ~workspaceOpen
    THEN [NoValidation EXCEPT !.error = Err("ERROR_NO_WORKSPACE_OPENED")]
    ELSE validateFile(operation)

\* validate(target, operation)
validate(target, operation) ==
    IF ~operation.isWorkspaceStandalone /\ operation.key \notin ValidKeys
    THEN [NoValidation EXCEPT !.error = Err("ERROR_UNKNOWN_KEY")]
    ELSE IF operation.isWorkspaceStandalone /\ target = "USER"
    THEN [NoValidation EXCEPT !.error = Err("ERROR_INVALID_TARGET")]
    ELSE IF target = "WORKSPACE" /\ ~workspaceOpen
    THEN [NoValidation EXCEPT !.error = Err("ERROR_NO_WORKSPACE_OPENED")]
    ELSE validateFile(operation)

\* applyEdits(content, edit): the text written, as the edit made to the content.
applyEdits(content, operation) ==
    IF operation.key = <<>> THEN <<"JSON.stringify">>
    ELSE <<"setProperty", content, operation.key>>

\* Mutant: writeConfiguration without the `typeof validation.error === 'number'`
\* return, so an error result (exists undefined) is taken for a missing file.
ensureConfigurationFileOnError(validation) == validation.exists # "true"

\* writeConfiguration: whether the missing configuration file is created with
\* '{}' (lines 59-72).
ensureConfigurationFile(validation) ==
    TypeOf(validation.error) # "number" /\ validation.exists # "true"

\* writeConfiguration(target, value), called when the previous call has settled.
\* failAt: the file-service call that rejects, if any.
WriteConfiguration(target, key, failAt) ==
    LET operation  == getConfigurationEditOperation(target, key)
        validation == validate(target, operation)
        failed     == TypeOf(validation.error) = "number"
        resource   == operation.target
        ensure     == ensureConfigurationFile(validation)
        contents   == IF validation.exists # "true" THEN "{}" ELSE validation.contents
        result     == applyEdits(contents, operation)
        ensured    == IF ensure
                      THEN << [resource |-> resource, value |-> <<"{}">>] >> ELSE <<>>
        written    == IF failed \/ (ensure /\ failAt = "ensure") THEN <<>>
                      ELSE << [resource |-> resource, value |-> result] >>
        succeeded  == ~failed /\ failAt = "none"
        created    == ensure /\ resource # Null /\ failAt # "ensure"
    IN  /\ cOp.op = "none"
        /\ failAt # "none" => ~failed
        /\ UNCHANGED workspaceOpen
        /\ configFiles' =
              IF succeeded
              THEN [configFiles EXCEPT ![resource] =
                      [exists |-> TRUE, content |-> "json", dirty |-> FALSE]]
              ELSE IF created
              THEN [configFiles EXCEPT ![resource] =
                      [exists |-> TRUE, content |-> "{}", dirty |-> @.dirty]]
              ELSE configFiles
        /\ cOp' = [op |-> "writeConfiguration", target |-> target, key |-> key,
                   operation |-> operation, validation |-> validation,
                   updates |-> ensured \o written,
                   reloaded |-> succeeded,
                   result |-> IF failed THEN <<"rejected", validation.error>>
                              ELSE IF succeeded THEN <<"resolved">>
                              ELSE <<"rejected", <<"io">> >>]

\* The caller has seen the promise of writeConfiguration settle.
SettleWrite ==
    /\ cOp.op # "none"
    /\ cOp' = NoWrite
    /\ UNCHANGED <<workspaceOpen, configFiles>>

\* The user types in the editor of a configuration file that exists.
EditInEditor(resource) ==
    /\ cOp.op = "none"
    /\ configFiles[resource].exists /\ ~configFiles[resource].dirty
    /\ configFiles' = [configFiles EXCEPT ![resource].dirty = TRUE]
    /\ cOp' = NoWrite
    /\ UNCHANGED workspaceOpen

FailAt == {"none", "write"}

(***************************************************************************)
(*                              FileService2                              *)
(***************************************************************************)

Schemes == {"file", "mem"}

\* A resource: a scheme and the segments of an absolute path (<<>> is the root).
Uri(scheme, path) == [scheme |-> scheme, path |-> path]

\* Lower-casing, as a case-insensitive comparison does it.
LowerSegment(seg) == IF seg = "A" THEN "a" ELSE seg
LowerPath(path) == [i \in DOMAIN path |-> LowerSegment(path[i])]

SamePath(p, q, ignoreCase) ==
    IF ignoreCase THEN LowerPath(p) = LowerPath(q) ELSE p = q

\* resources.isEqual(first, second, ignoreCase)
isEqual(first, second, ignoreCase) ==
    \/ first = second
    \/ ignoreCase /\ first.scheme = second.scheme
                  /\ LowerPath(first.path) = LowerPath(second.path)

\* resources.isEqualOrParent(resource, candidate, ignoreCase): candidate is
\* resource or one of its ancestors.
isEqualOrParent(resource, candidate, ignoreCase) ==
    /\ resource.scheme = candidate.scheme
    /\ Len(candidate.path) <= Len(resource.path)
    /\ SamePath(SubSeq(resource.path, 1, Len(candidate.path)), candidate.path, ignoreCase)

\* resources.dirname, basename, joinPath
dirname(resource) ==
    IF resource.path = <<>> THEN resource
    ELSE Uri(resource.scheme, SubSeq(resource.path, 1, Len(resource.path) - 1))
basename(resource) == resource.path[Len(resource.path)]
joinPath(resource, name) == Uri(resource.scheme, Append(resource.path, name))

\* FileSystemProviderCapabilities of the provider registered for a scheme.
Capabilities(scheme) == provider[scheme].capabilities
hasReadWriteCapability(scheme) == "FileReadWrite" \in Capabilities(scheme)
hasFileFolderCopyCapability(scheme) == "FileFolderCopy" \in Capabilities(scheme)
hasOpenReadWriteCloseCapability(scheme) == "FileOpenReadWriteClose" \in Capabilities(scheme)
isPathCaseSensitive(scheme) == "PathCaseSensitive" \in Capabilities(scheme)

(***************************************************************************)
(* The file system behind a provider.  A disk is a set of entries          *)
(* [path, type]; a provider that is not path-case-sensitive finds an entry *)
(* whatever the case of the path asked for.                                *)
(***************************************************************************)
EntriesAt(d, resource) ==
    {e \in d[resource.scheme] :
        SamePath(e.path, resource.path, ~isPathCaseSensitive(resource.scheme))}

\* The entries at or below resource.
EntriesUnder(d, resource) ==
    {e \in d[resource.scheme] :
        /\ Len(resource.path) <= Len(e.path)
        /\ SamePath(SubSeq(e.path, 1, Len(resource.path)), resource.path,
                    ~isPathCaseSensitive(resource.scheme))}

DiskExists(d, resource) == resource.path = <<>> \/ EntriesAt(d, resource) # {}

DiskType(d, resource) ==
    IF resource.path = <<>> THEN "dir"
    ELSE (CHOOSE e \in EntriesAt(d, resource) : TRUE).type

\* The path under which a new entry is stored: its parent as stored, then its name.
StoredPath(d, resource) ==
    LET parent == dirname(resource)
        at     == EntriesAt(d, parent)
    IN  IF resource.path = <<>> \/ at = {} THEN resource.path
        ELSE Append((CHOOSE e \in at : TRUE).path, basename(resource))

\* The entries under `from`, moved below `to`.
Rerooted(d, from, to) ==
    LET base == StoredPath(d, to) IN
    {[path |-> base \o SubSeq(e.path, Len(from.path) + 1, Len(e.path)), type |-> e.type] :
        e \in EntriesUnder(d, from)}

(***************************************************************************)
(* A call in progress: the disks, the provider and legacy calls made so    *)
(* far, the after-operation events fired, the error thrown ("" when none)  *)
(* and the value returned by the last step.                                *)
(***************************************************************************)
\* A boolean option as a call records it.
Flag(b) == IF b THEN "true" ELSE "false"

Begin(d) == [disk |-> d, calls |-> <<>>, events |-> <<>>, error |-> "", ret |-> FALSE]
Failed(ctx) == ctx.error # ""
Throw(ctx, error) == [ctx EXCEPT !.error = error]
Called(ctx, call) == [ctx EXCEPT !.calls = Append(@, call)]
\* A service that fires no after-operation event.
FiredNothing(ctx, event) == ctx

\* An after-operation event is recorded with the number of calls made before it.
Fired(ctx, event) ==
    [ctx EXCEPT !.events = Append(@, [event |-> event, after |-> Len(ctx.calls)])]

\* new FileOperationEvent(resource, operation, target): target is the file stat
\* the event carries, NoStat when there is none.
NoStat == [resource |-> [scheme |-> "none", path |-> <<>>], isDirectory |-> FALSE]
FileStat(resource, isDirectory) == [resource |-> resource, isDirectory |-> isDirectory]
FileOperationEvent(resource, operation, target) ==
    [resource |-> resource, operation |-> operation, target |-> target]

\* provider.stat(resource): ret is the type found, or the call throws FileNotFound.
providerStat(ctx, resource) ==
    LET c == Called(ctx, <<"provider", "stat", resource>>) IN
    IF DiskExists(c.disk, resource)
    THEN [c EXCEPT !.ret = DiskType(c.disk, resource)]
    ELSE Throw(c, "FileNotFound")

\* provider.readdir(resource): ret is the number of children.
providerReaddir(ctx, resource) ==
    LET c == Called(ctx, <<"provider", "readdir", resource>>) IN
    [c EXCEPT !.ret = Cardinality({e \in EntriesUnder(c.disk, resource) :
                                      Len(e.path) = Len(resource.path) + 1})]

\* provider.delete(resource, { recursive })
providerDelete(ctx, resource, recursive) ==
    LET c     == Called(ctx, <<"provider", "delete", resource, recursive>>)
        under == EntriesUnder(c.disk, resource)
    IN  IF resource.path = <<>> \/ ~DiskExists(c.disk, resource) THEN Throw(c, "FileNotFound")
        ELSE IF ~recursive /\ Cardinality(under) > 1 THEN Throw(c, "Unknown")
        ELSE [c EXCEPT !.disk[resource.scheme] = @ \ under]

\* provider.mkdir(resource)
providerMkdir(ctx, resource) ==
    LET c == Called(ctx, <<"provider", "mkdir", resource>>) IN
    IF DiskExists(c.disk, resource) THEN Throw(c, "FileExists")
    ELSE IF ~DiskExists(c.disk, dirname(resource)) THEN Throw(c, "FileNotFound")
    ELSE [c EXCEPT !.disk[resource.scheme] =
            @ \cup {[path |-> StoredPath(c.disk, resource), type |-> "dir"]}]

\* The disk after the entries under source were put at target, the entries that
\* were at target replaced; the source entries are removed too when moving.
Transferred(d, source, target, moving) ==
    LET placed == Rerooted(d, source, target)
        old    == EntriesUnder(d, target) \cup
                  (IF moving THEN EntriesUnder(d, source) ELSE {})
    IN  IF source.scheme = target.scheme
        THEN [d EXCEPT ![target.scheme] = (@ \ old) \cup placed]
        ELSE [d EXCEPT ![target.scheme] = (@ \ EntriesUnder(d, target)) \cup placed]

\* What rename and copy check before they act.
TransferError(d, source, target, overwrite) ==
    IF ~DiskExists(d, source) \/ source.path = <<>> THEN "FileNotFound"
    ELSE IF ~DiskExists(d, dirname(target)) \/ DiskType(d, dirname(target)) # "dir"
    THEN "FileNotFound"
    ELSE IF /\ DiskExists(d, target) /\ ~overwrite
            /\ EntriesAt(d, target) # EntriesAt(d, source)
    THEN "FileExists"
    ELSE ""

\* provider.rename(source, target, { overwrite })
providerRename(ctx, source, target, overwrite) ==
    LET c   == Called(ctx, <<"provider", "rename", source, target, Flag(overwrite)>>)
        err == TransferError(c.disk, source, target, overwrite)
    IN  IF err # "" THEN Throw(c, err)
        ELSE [c EXCEPT !.disk = Transferred(c.disk, source, target, TRUE)]

\* provider.copy(source, target, { overwrite })
providerCopy(ctx, source, target, overwrite) ==
    LET c   == Called(ctx, <<"provider", "copy", source, target, Flag(overwrite)>>)
        err == TransferError(c.disk, source, target, overwrite)
    IN  IF err # "" THEN Throw(c, err)
        ELSE IF EntriesAt(c.disk, target) = EntriesAt(c.disk, source) THEN c
        ELSE [c EXCEPT !.disk = Transferred(c.disk, source, target, FALSE)]

\* provider.readFile(resource)
providerReadFile(ctx, resource) ==
    LET c == Called(ctx, <<"provider", "readFile", resource>>) IN
    IF ~DiskExists(c.disk, resource) THEN Throw(c, "FileNotFound")
    ELSE IF DiskType(c.disk, resource) = "dir" THEN Throw(c, "FileIsADirectory")
    ELSE c

\* provider.writeFile(resource, content, { create: true, overwrite })
providerWriteFile(ctx, resource, overwrite) ==
    LET c == Called(ctx, <<"provider", "writeFile", resource, Flag(overwrite)>>) IN
    IF ~DiskExists(c.disk, dirname(resource)) THEN Throw(c, "FileNotFound")
    ELSE IF DiskExists(c.disk, resource) /\ DiskType(c.disk, resource) = "dir"
    THEN Throw(c, "FileIsADirectory")
    ELSE IF DiskExists(c.disk, resource) /\ ~overwrite THEN Throw(c, "FileExists")
    ELSE IF DiskExists(c.disk, resource) THEN c
    ELSE [c EXCEPT !.disk[resource.scheme] =
            @ \cup {[path |-> StoredPath(c.disk, resource), type |-> "file"]}]

(***************************************************************************)
(* The legacy file service (set with setLegacyService).  It works on the   *)
(* same providers; a call records the arguments it was given, "undefined"  *)
(* for one that was not passed.                                            *)
(***************************************************************************)
\* legacy.copyFile(source, target, overwrite)
legacyCopyFile(ctx, source, target, overwrite) ==
    LET c == Called(ctx, <<"legacy", "copyFile", source, target, overwrite>>) IN
    IF ~provider[source.scheme].registered \/ ~provider[target.scheme].registered
    THEN Throw(c, "ENOPRO")
    ELSE IF ~DiskExists(c.disk, source) \/ source.path = <<>> THEN Throw(c, "FILE_NOT_FOUND")
    ELSE IF ~DiskExists(c.disk, dirname(target)) THEN Throw(c, "FILE_NOT_FOUND")
    ELSE IF DiskExists(c.disk, target) /\ overwrite # "true" THEN Throw(c, "FILE_MOVE_CONFLICT")
    ELSE [c EXCEPT !.disk = Transferred(c.disk, source, target, FALSE)]

\* legacy.createFile(resource, content, options)
legacyCreateFile(ctx, resource) ==
    LET c == Called(ctx, <<"legacy", "createFile", resource>>) IN
    IF ~provider[resource.scheme].registered THEN Throw(c, "ENOPRO")
    ELSE IF DiskExists(c.disk, resource) THEN Throw(c, "FILE_MODIFIED_SINCE")
    ELSE IF ~DiskExists(c.disk, dirname(resource)) THEN Throw(c, "FILE_NOT_FOUND")
    ELSE [c EXCEPT !.disk[resource.scheme] =
            @ \cup {[path |-> StoredPath(c.disk, resource), type |-> "file"]}]

\* legacy.del(resource, options)
legacyDel(ctx, resource, recursive) ==
    LET c == Called(ctx, <<"legacy", "del", resource, recursive>>) IN
    IF ~provider[resource.scheme].registered THEN Throw(c, "ENOPRO")
    ELSE IF resource.path = <<>> \/ ~DiskExists(c.disk, resource) THEN Throw(c, "FILE_NOT_FOUND")
    ELSE [c EXCEPT !.disk[resource.scheme] = @ \ EntriesUnder(c.disk, resource)]

(***************************************************************************)
(* FileService2 itself.                                                    *)
(***************************************************************************)
\* An optional boolean argument is "true", "false" or "undefined"; !!overwrite.
Truthy(overwrite) == overwrite = "true"

\* withProvider(resource)
withProvider(ctx, resource) ==
    IF ~provider[resource.scheme].registered THEN Throw(ctx, "ENOPRO") ELSE ctx

\* throwIfFileSystemIsReadonly(provider)
throwIfFileSystemIsReadonly(ctx, scheme) ==
    IF "Readonly" \in Capabilities(scheme) THEN Throw(ctx, "FILE_PERMISSION_DENIED") ELSE ctx

\* await: the rest of an async function runs unless the awaited call threw.
Await(ctx, Rest(_)) == IF Failed(ctx) THEN ctx ELSE Rest(ctx)

\* return value
Returned(ctx, value) == [ctx EXCEPT !.ret = value]

\* doResolveFile(resource) and toFileStat: stat, and readdir for a directory.
\* ret is the file stat.
doResolveFile(ctx, resource) ==
    Await(withProvider(ctx, resource), LAMBDA c0 :
    Await(providerStat(c0, resource), LAMBDA c1 :
        IF c1.ret = "dir"
        THEN Await(providerReaddir(c1, resource), LAMBDA c2 :
                 Returned(c2, [isDirectory |-> TRUE, children |-> c2.ret]))
        ELSE Returned(c1, [isDirectory |-> FALSE, children |-> 0])))

\* The catch block of resolveFile: file not found becomes a file operation result.
FileNotFoundAsResult(ctx) ==
    IF ctx.error = "FileNotFound" THEN Throw(ctx, "FILE_NOT_FOUND") ELSE ctx

\* resolveFile(resource)
resolveFile(ctx, resource) == FileNotFoundAsResult(doResolveFile(ctx, resource))

\* The try/catch of existsFile: ret is whether resolveFile succeeded.
Caught(ctx) == [ctx EXCEPT !.error = "", !.ret = ~Failed(ctx)]

\* existsFile(resource)
existsFile(ctx, resource) == Caught(resolveFile(ctx, resource))

\* A del that does not validate recursive.
validateRecursiveSkipped(ctx, resource, recursive) == ctx

\* del, "Validate recursive"
validateRecursive(ctx, resource, recursive) ==
    IF recursive THEN ctx
    ELSE Await(existsFile(ctx, resource), LAMBDA c0 :
             IF ~c0.ret THEN c0
             ELSE Await(resolveFile(c0, resource), LAMBDA c1 :
                      IF c1.ret.isDirectory /\ c1.ret.children > 0
                      THEN Throw(c1, "deleteFailed")
                      ELSE c1))

\* del(resource, options)
del(ctx, resource, useTrash, recursive) ==
    IF useTrash THEN legacyDel(ctx, resource, recursive)
    ELSE Await(withProvider(ctx, resource), LAMBDA c0 :
         Await(throwIfFileSystemIsReadonly(c0, resource.scheme), LAMBDA c1 :
         Await(validateRecursive(c1, resource, recursive), LAMBDA c2 :
         Await(providerDelete(c2, resource, recursive), LAMBDA c3 :
             Fired(c3, FileOperationEvent(resource, "DELETE", NoStat))))))

\* mkdirp, first loop: go up until a directory exists, remembering the names
\* to create.  ret is <<directory reached, directoriesToCreate>>.
RECURSIVE mkdirpUp(_, _, _)
RECURSIVE mkdirpStat(_, _, _)
mkdirpUp(ctx, directory, directoriesToCreate) ==
    IF isEqual(directory, dirname(directory), FALSE)
    THEN Returned(ctx, <<directory, directoriesToCreate>>)
    ELSE mkdirpStat(providerStat(ctx, directory), directory, directoriesToCreate)

\* The body of the first loop, once provider.stat(directory) has settled.
mkdirpStat(ctx, directory, directoriesToCreate) ==
    IF ~Failed(ctx)
    THEN IF ctx.ret # "dir" THEN Throw(ctx, "mkdirExistsError")
         ELSE Returned(ctx, <<directory, directoriesToCreate>>)
    ELSE IF ctx.error # "FileNotFound" THEN ctx
    ELSE mkdirpUp([ctx EXCEPT !.error = ""], dirname(directory),
                  Append(directoriesToCreate, basename(directory)))

\* mkdirp, second loop: create the remembered directories, last one first.
RECURSIVE mkdirpDown(_, _, _, _)
mkdirpDown(ctx, directory, directoriesToCreate, i) ==
    IF i < 1 THEN ctx
    ELSE Await(providerMkdir(ctx, joinPath(directory, directoriesToCreate[i])), LAMBDA c :
             mkdirpDown(c, joinPath(directory, directoriesToCreate[i]),
                        directoriesToCreate, i - 1))

\* mkdirp(provider, directory)
mkdirp(ctx, directory) ==
    Await(mkdirpUp(ctx, directory, <<>>), LAMBDA up :
        mkdirpDown(up, up.ret[1], up.ret[2], Len(up.ret[2])))

\* isCaseChange, as doValidateMoveCopy computes it.
isCaseChange(source, target) ==
    IF isPathCaseSensitive(source.scheme) THEN FALSE ELSE isEqual(source, target, TRUE)

\* A doValidateMoveCopy that never bails out on an existing target.
BailOutOnConflictNever(exists, caseChange, overwrite) == FALSE

\* doValidateMoveCopy bails out when the target exists and is not to be overwritten.
BailOutOnConflict(exists, caseChange, overwrite) == exists /\ ~caseChange /\ ~overwrite

\* doValidateMoveCopy(provider, source, target, overwrite): ret is
\* [exists, isCaseChange].
doValidateMoveCopy(ctx, source, target, overwrite) ==
    IF /\ ~isCaseChange(source, target)
       /\ isEqualOrParent(target, source, ~isPathCaseSensitive(source.scheme))
    THEN Throw(ctx, "unableToMoveCopyError1")
    ELSE Await(existsFile(ctx, target), LAMBDA c :
             IF BailOutOnConflict(c.ret, isCaseChange(source, target), Truthy(overwrite))
             THEN Throw(c, "FILE_MOVE_CONFLICT")
             ELSE IF /\ c.ret
                     /\ ~isCaseChange(source, target)
                     /\ isEqualOrParent(source, target, ~isPathCaseSensitive(source.scheme))
             THEN Throw(c, "unableToMoveCopyError3")
             ELSE Returned(c, [exists |-> c.ret,
                               isCaseChange |-> isCaseChange(source, target)]))

\* doMoveCopy, "copy source => target"
doTransfer(ctx, source, target, mode, overwrite) ==
    IF mode = "copy"
    THEN IF hasFileFolderCopyCapability(source.scheme)
         THEN providerCopy(ctx, source, target, Truthy(overwrite))
         ELSE IF hasOpenReadWriteCloseCapability(source.scheme)
         THEN legacyCopyFile(ctx, source, target, overwrite)
         ELSE IF hasReadWriteCapability(source.scheme)
         THEN Await(providerReadFile(ctx, source), LAMBDA c :
                  providerWriteFile(c, target, Truthy(overwrite)))
         ELSE Throw(ctx, "insufficientCapabilities")
    ELSE providerRename(ctx, source, target, Truthy(overwrite))

\* doMoveCopy(provider, source, target, mode, overwrite)
doMoveCopy(ctx, source, target, mode, overwrite) ==
    Await(doValidateMoveCopy(ctx, source, target, overwrite), LAMBDA v :
    Await(IF v.ret.exists /\ ~v.ret.isCaseChange /\ Truthy(overwrite)
          THEN del(v, target, FALSE, TRUE) ELSE v, LAMBDA c1 :
    Await(mkdirp(c1, dirname(target)), LAMBDA c2 :
        doTransfer(c2, source, target, mode, overwrite))))

\* doCopyAcrossProviders(source, target, overwrite)
doCopyAcrossProviders(ctx, source, target, overwrite) ==
    legacyCopyFile(ctx, source, target, overwrite)

\* moveFile/copyFile, "same provider"
doSameProvider(ctx, source, target, mode, overwrite) ==
    Await(withProvider(ctx, source), LAMBDA c0 :
    Await(throwIfFileSystemIsReadonly(c0, source.scheme), LAMBDA c1 :
        doMoveCopy(c1, source, target, mode, overwrite)))

\* copyFile(source, target, overwrite)
copyFile(ctx, source, target, overwrite) ==
    Await(IF source.scheme = target.scheme
          THEN doSameProvider(ctx, source, target, "copy", overwrite)
          ELSE doCopyAcrossProviders(ctx, source, target, "undefined"), LAMBDA c0 :
    Await(resolveFile(c0, target), LAMBDA c1 :
        Fired(c1, FileOperationEvent(source, "COPY", FileStat(target, c1.ret.isDirectory)))))

\* doMoveAcrossProviders(source, target, overwrite)
doMoveAcrossProviders(ctx, source, target, overwrite) ==
    Await(copyFile(ctx, source, target, overwrite), LAMBDA c :
        del(c, source, FALSE, TRUE))

\* moveFile(source, target, overwrite)
moveFile(ctx, source, target, overwrite) ==
    Await(IF source.scheme = target.scheme
          THEN doSameProvider(ctx, source, target, "move", overwrite)
          ELSE doMoveAcrossProviders(ctx, source, target, "undefined"), LAMBDA c0 :
    Await(resolveFile(c0, target), LAMBDA c1 :
        Fired(c1, FileOperationEvent(source, "MOVE", FileStat(target, c1.ret.isDirectory)))))

\* createFolder(resource)
createFolder(ctx, resource) ==
    Await(withProvider(ctx, resource), LAMBDA c0 :
    Await(throwIfFileSystemIsReadonly(c0, resource.scheme), LAMBDA c1 :
    Await(mkdirp(c1, resource), LAMBDA c2 :
    Await(resolveFile(c2, resource), LAMBDA c3 :
        Fired(c3, FileOperationEvent(resource, "CREATE", FileStat(resource, c3.ret.isDirectory)))))))

\* createFile(resource, content, options): useLegacy is true.
createFile(ctx, resource) == legacyCreateFile(ctx, resource)

(***************************************************************************)
(* The file service as a state machine: a call runs to completion in one   *)
(* step and leaves its record in fOp; SettleFile forgets the record.       *)
(***************************************************************************)
\* The capabilities a provider can register with.
FileProviders ==
    { {"FileReadWrite", "PathCaseSensitive"},
      {"FileReadWrite"},
      {"FileReadWrite", "FileFolderCopy"},
      {"FileOpenReadWriteClose", "PathCaseSensitive"},
      {"FileReadWrite", "PathCaseSensitive", "Readonly"} }

Registered(capabilities) == [registered |-> TRUE, capabilities |-> capabilities]
Unregistered == [registered |-> FALSE, capabilities |-> {}]

\* The paths the disks are explored over.
DiskPaths ==
    [file |-> {<<"a">>, <<"A">>, <<"b">>, <<"a", "b">>},
     mem  |-> {<<"a">>}]

\* The resources calls are made with.
Resources ==
    { Uri("file", <<"a">>), Uri("file", <<"A">>), Uri("file", <<"a", "b">>),
      Uri("file", <<"b">>), Uri("mem", <<"a">>) }

OverwriteArgs == {"true", "false", "undefined"}

\* A disk a provider can hold: one entry per path as the provider compares
\* paths, every entry inside a directory.
WellFormed(entries, ignoreCase) ==
    /\ \A e, f \in entries : SamePath(e.path, f.path, ignoreCase) => e = f
    /\ \A e \in entries : Len(e.path) > 1 =>
          \E f \in entries : /\ f.type = "dir"
                             /\ f.path = SubSeq(e.path, 1, Len(e.path) - 1)

DisksOf(scheme, ignoreCase) ==
    {entries \in SUBSET [path : DiskPaths[scheme], type : {"file", "dir"}] :
        WellFormed(entries, ignoreCase)}

WithinDiskPaths(d) ==
    \A scheme \in Schemes :
        /\ \A e \in d[scheme] : e.path \in DiskPaths[scheme]
        /\ WellFormed(d[scheme], ~isPathCaseSensitive(scheme))

NoUri == Uri("none", <<>>)

NoFileOp == [op |-> "none", source |-> NoUri, target |-> NoUri, overwrite |-> "undefined",
             useTrash |-> FALSE, recursive |-> FALSE,
             calls |-> <<>>, events |-> <<>>, error |-> ""]

\* The disposable returned by registerProvider(scheme, provider); legacyDisposal
\* tells whether it holds a registration of the legacy service.
Registration(scheme, legacyDisposal) ==
    [scheme |-> scheme, legacyDisposal |-> legacyDisposal, disposed |-> FALSE]

NoRegistryOp == [op |-> "none", scheme |-> "none", threw |-> FALSE,
                 events |-> <<>>, forwarded |-> {}]

FileInit ==
    /\ \E capabilities \in FileProviders,
          mem \in {Unregistered, Registered({"FileReadWrite", "PathCaseSensitive"})} :
          provider = [scheme \in Schemes |->
                        IF scheme = "file" THEN Registered(capabilities) ELSE mem]
    /\ \E file \in DisksOf("file", ~isPathCaseSensitive("file")),
          mem \in DisksOf("mem", ~isPathCaseSensitive("mem")) :
          /\ ~provider["mem"].registered => mem = {}
          /\ disk = [scheme \in Schemes |-> IF scheme = "file" THEN file ELSE mem]
    /\ fOp = NoFileOp
    /\ legacy = "set"
    /\ legacyProvider = {scheme \in Schemes : provider[scheme].registered}
    /\ registrations =
          [i \in 1..Cardinality(legacyProvider) |->
              Registration(IF i = 1 THEN "file" ELSE "mem", FALSE)]
    /\ rOp = NoRegistryOp

\* The file service when another component is looked at.
FileIdle ==
    /\ provider = [scheme \in Schemes |-> Unregistered]
    /\ disk = [scheme \in Schemes |-> {}]
    /\ fOp = NoFileOp
    /\ legacy = "none"
    /\ legacyProvider = {}
    /\ registrations = <<>>
    /\ rOp = NoRegistryOp

\* What a finished call leaves behind.
Finished(op, source, target, overwrite, useTrash, recursive, ctx) ==
    /\ WithinDiskPaths(ctx.disk)
    /\ disk' = ctx.disk
    /\ fOp' = [op |-> op, source |-> source, target |-> target, overwrite |-> overwrite,
               useTrash |-> useTrash, recursive |-> recursive,
               calls |-> ctx.calls, events |-> ctx.events, error |-> ctx.error]
    /\ UNCHANGED <<provider, registryVars>>

MoveFile(source, target, overwrite) ==
    /\ fOp.op = "none"
    /\ Finished("moveFile", source, target, overwrite, FALSE, FALSE,
                moveFile(Begin(disk), source, target, overwrite))

CopyFile(source, target, overwrite) ==
    /\ fOp.op = "none"
    /\ Finished("copyFile", source, target, overwrite, FALSE, FALSE,
                copyFile(Begin(disk), source, target, overwrite))

Del(resource, useTrash, recursive) ==
    /\ fOp.op = "none"
    /\ Finished("del", resource, NoUri, "undefined", useTrash, recursive,
                del(Begin(disk), resource, useTrash, recursive))

CreateFolder(resource) ==
    /\ fOp.op = "none"
    /\ Finished("createFolder", resource, NoUri, "undefined", FALSE, FALSE,
                createFolder(Begin(disk), resource))

CreateFile(resource) ==
    /\ fOp.op = "none"
    /\ Finished("createFile", resource, NoUri, "undefined", FALSE, FALSE,
                createFile(Begin(disk), resource))

SettleFile ==
    /\ fOp.op # "none"
    /\ fOp' = NoFileOp
    /\ UNCHANGED <<provider, disk, registryVars>>

(***************************************************************************)
(* The provider registry of FileService2.                                  *)
(***************************************************************************)
MaxRegistrations == 3

\* The providers that get registered.
RegistryProviders == {{"FileReadWrite", "PathCaseSensitive"}, {"FileReadWrite", "Readonly"}}

\* this.provider.has(scheme)
HasProvider(scheme) == provider[scheme].registered

\* legacy.registerProvider(scheme, provider) throws for a scheme the legacy
\* service already holds, as registerProvider does.
legacyRegisterThrows(scheme) == scheme \in legacyProvider

\* registerProvider(scheme, provider)
RegisterProvider(scheme, capabilities) ==
    /\ Len(registrations) < MaxRegistrations
    /\ IF HasProvider(scheme) \/ (legacy = "set" /\ legacyRegisterThrows(scheme))
       THEN /\ rOp' = [op |-> "registerProvider", scheme |-> scheme, threw |-> TRUE,
                       events |-> <<>>, forwarded |-> {}]
            /\ UNCHANGED <<provider, legacyProvider, registrations>>
       ELSE /\ legacyProvider' = IF legacy = "set" THEN legacyProvider \cup {scheme}
                                 ELSE legacyProvider
            /\ provider' = [provider EXCEPT ![scheme] = Registered(capabilities)]
            /\ registrations' = Append(registrations, Registration(scheme, legacy = "set"))
            /\ rOp' = [op |-> "registerProvider", scheme |-> scheme, threw |-> FALSE,
                       events |-> << <<"added", scheme>> >>,
                       forwarded |-> IF legacy = "set" THEN {scheme} ELSE {}]
    /\ UNCHANGED <<legacy, disk, fOp>>

\* dispose() of the disposable returned by registerProvider; a disposable is
\* disposed once.
DisposeRegistration(i) ==
    /\ ~registrations[i].disposed
    /\ registrations' = [registrations EXCEPT ![i].disposed = TRUE]
    /\ provider' = [provider EXCEPT ![registrations[i].scheme] = Unregistered]
    /\ legacyProvider' = IF registrations[i].legacyDisposal
                         THEN legacyProvider \ {registrations[i].scheme}
                         ELSE legacyProvider
    /\ rOp' = [op |-> "dispose", scheme |-> registrations[i].scheme, threw |-> FALSE,
               events |-> << <<"removed", registrations[i].scheme>> >>, forwarded |-> {}]
    /\ UNCHANGED <<legacy, disk, fOp>>

\* setLegacyService(legacy)
SetLegacyService ==
    /\ legacy = "none"
    /\ legacy' = "set"
    /\ legacyProvider' = legacyProvider \cup {scheme \in Schemes : provider[scheme].registered}
    /\ rOp' = [op |-> "setLegacyService", scheme |-> "none", threw |-> FALSE,
               events |-> <<>>,
               forwarded |-> {scheme \in Schemes : provider[scheme].registered}]
    /\ UNCHANGED <<provider, registrations, disk, fOp>>

(***************************************************************************)
(*                  InlineChatDecorationsContribution                      *)
(***************************************************************************)

\* Most listeners of one kind attached at a time in one run of the model.
MaxListeners == 3

\* Most decorations the editor creates in one run of the model.
MaxDecorations == 5

\* The selections of the editor; 0 stands for null (getSelection() without model).
Selections == {1, 2}

NoChatOp == [op |-> "none", changes |-> <<>>, runs |-> 0]

\* One changeDecorations call of the editor: the ids held before it, removed
\* and added by it.  Calls made inside its callback are part of it.
DecorationChange(before, removed, added) ==
    [before |-> {d.id : d \in before}, removed |-> {d.id : d \in removed}, added |-> added]

\* A removePreviousGutterDecoration that removes nothing.
removePreviousGutterDecorationKeeps(st) ==
    [st EXCEPT !.changes = Append(@, DecorationChange(st.decorations, {}, {}))]

\* removePreviousGutterDecoration(), on st = [decorations, gutterDecorationID,
\* decorationIds, changes]
removePreviousGutterDecoration(st) ==
    LET removed == {d \in st.decorations :
                        st.gutterDecorationID # 0 /\ d.id = st.gutterDecorationID}
    IN  [st EXCEPT !.decorations = @ \ removed,
                   !.changes = Append(@, DecorationChange(st.decorations, removed, {}))]

\* updateGutterDecoration(selection)
updateGutterDecoration(st, sel) ==
    IF sel = 0 THEN st
    ELSE LET inner == removePreviousGutterDecoration([st EXCEPT !.changes = <<>>])
             id    == st.decorationIds + 1
         IN  [decorations |-> inner.decorations \cup {[id |-> id, range |-> sel]},
              gutterDecorationID |-> id,
              decorationIds |-> id,
              changes |-> Append(st.changes,
                                 [inner.changes[1] EXCEPT !.added = {id}])]

\* The listeners of onDidChangeCursorSelection, n of them, called in turn.
RECURSIVE fireCursorSelection(_, _, _)
fireCursorSelection(st, sel, n) ==
    IF n = 0 THEN st ELSE fireCursorSelection(updateGutterDecoration(st, sel), sel, n - 1)

ChatState == [decorations |-> decorations, gutterDecorationID |-> gutterDecorationID,
              decorationIds |-> decorationIds, changes |-> <<>>]

\* What a handler leaves in the editor and in this.gutterDecorationID.
ChatDone(op, st, runs) ==
    /\ decorations' = st.decorations
    /\ gutterDecorationID' = st.gutterDecorationID
    /\ decorationIds' = st.decorationIds
    /\ iOp' = [op |-> op, changes |-> st.changes, runs |-> runs]

\* activateGutterDecoration()
activateGutterDecoration ==
    /\ cursorChangeListeners' = cursorChangeListeners + 1
    /\ clickChangeListeners' = clickChangeListeners + 1
    /\ latestAttached' = TRUE
    /\ ChatDone("configuration", updateGutterDecoration(ChatState, selection), 0)

\* The state after the constructor, for a setting and an editor selection.
ChatInit ==
    /\ showGutterIcon \in BOOLEAN
    /\ selection \in Selections \cup {0}
    /\ isDisposed = FALSE
    /\ latestAttached = showGutterIcon
    /\ cursorChangeListeners = (IF showGutterIcon THEN 1 ELSE 0)
    /\ clickChangeListeners = (IF showGutterIcon THEN 1 ELSE 0)
    /\ decorationIds = (IF showGutterIcon /\ selection # 0 THEN 1 ELSE 0)
    /\ gutterDecorationID = decorationIds
    /\ decorations = (IF decorationIds = 1 THEN {[id |-> 1, range |-> selection]} ELSE {})
    /\ iOp = NoChatOp

ChatIdle ==
    /\ showGutterIcon = FALSE
    /\ selection = 0
    /\ isDisposed = FALSE
    /\ latestAttached = FALSE
    /\ cursorChangeListeners = 0
    /\ clickChangeListeners = 0
    /\ decorationIds = 0
    /\ gutterDecorationID = 0
    /\ decorations = {}
    /\ iOp = NoChatOp

\* The onDidChangeConfiguration listener, for an event that affects the
\* setting or not, value being the value of the setting after the change.
ChangeConfiguration(affects, value) ==
    /\ showGutterIcon' = (IF affects THEN value ELSE showGutterIcon)
    /\ UNCHANGED <<selection, isDisposed>>
    /\ IF ~affects
       THEN /\ UNCHANGED <<cursorChangeListeners, clickChangeListeners, latestAttached>>
            /\ ChatDone("configuration", ChatState, 0)
       ELSE IF value
       THEN /\ cursorChangeListeners < MaxListeners
            /\ decorationIds < MaxDecorations
            /\ activateGutterDecoration
       ELSE /\ UNCHANGED <<cursorChangeListeners, clickChangeListeners, latestAttached>>
            /\ ChatDone("configuration", removePreviousGutterDecoration(ChatState), 0)

\* The editor changes its selection and fires onDidChangeCursorSelection.
ChangeCursorSelection(sel) ==
    /\ decorationIds + cursorChangeListeners <= MaxDecorations
    /\ selection' = sel
    /\ ChatDone("selection", fireCursorSelection(ChatState, sel, cursorChangeListeners), 0)
    /\ UNCHANGED <<showGutterIcon, cursorChangeListeners, clickChangeListeners,
                   latestAttached, isDisposed>>

\* A mouse down in the editor; onGlyph: the target element carries the class
\* of the gutter icon, which only a rendered gutter decoration has.
MouseDown(onGlyph) ==
    /\ onGlyph => decorations # {}
    /\ ChatDone("click", ChatState, IF onGlyph THEN clickChangeListeners ELSE 0)
    /\ UNCHANGED <<showGutterIcon, selection, cursorChangeListeners, clickChangeListeners,
                   latestAttached, isDisposed>>

\* dispose()
DisposeContribution ==
    /\ isDisposed' = TRUE
    /\ latestAttached' = FALSE
    /\ cursorChangeListeners' = cursorChangeListeners - (IF latestAttached THEN 1 ELSE 0)
    /\ clickChangeListeners' = clickChangeListeners - (IF latestAttached THEN 1 ELSE 0)
    /\ ChatDone("dispose", ChatState, 0)
    /\ UNCHANGED <<showGutterIcon, selection>>

(***************************************************************************)
(*                     SCMRepositoryGraphController                        *)
(***************************************************************************)

\* Most colours allocated between two resets in one run of the model.
MaxAllocations == 8

\* Most swimlanes of a view model in one run of the model.
MaxSwimlanes == 2

graphColors == <<"#007ACC", "#BC3FBC", "#BF8803", "#CC6633", "#F14C4C", "#16825D">>

\* The history items of the model: commits 1..3 as a repository may report
\* them: a root commit, commits with one parent and merges of two parents.
HistoryItems ==
    { [id |-> 1, parentIds |-> <<2>>],
      [id |-> 1, parentIds |-> <<2, 3>>],
      [id |-> 2, parentIds |-> <<3>>],
      [id |-> 2, parentIds |-> <<3, 1>>],
      [id |-> 3, parentIds |-> <<1>>],
      [id |-> 3, parentIds |-> <<>>] }

\* rendered: what renderSCMHistoryItemGraph did for the view model last rendered.
NoGraph == [index |-> 0, threw |-> FALSE, circles |-> 0, circleIndex |-> -1,
            circleColorIndex |-> -1]

NoScmOp == [op |-> "none", added |-> <<>>, rendered |-> NoGraph]

ScmIdle ==
    /\ colorIndex = -1
    /\ swimlanes = <<>>
    /\ allocated = <<>>
    /\ sOp = NoScmOp

PureIdle == pureCall = [fn |-> "none"] /\ pureResult = <<"pending">>

\* The cache of the one language pack: whether the commit's directory exists,
\* the state of its messages file, whether the corrupt marker exists.
NoCache == [dir |-> FALSE, messagesFile |-> "absent", marker |-> FALSE]

NlsIdle == nlsCache = NoCache /\ nlsOp = [op |-> "none"]

WorkerIdle == workers = <<>> /\ kOp = [op |-> "none"]

DiffIdle ==
    /\ diffEnv = [repositories |-> {}, groups |-> {}, activities |-> {}]
    /\ diffResolve = [pc |-> "idle", observed |-> <<>>]

NoProject ==
    [projectVersion |-> <<>>, currentRootFiles |-> <<>>, languageServicePromise |-> 0,
     services |-> <<>>, jobs |-> <<>>, steps |-> 0]

HtmlIdle ==
    /\ htmlDocuments = [uri \in {"a.html", "b.html"} |-> 0]
    /\ htmlProject = NoProject
    /\ hOp = [op |-> "none"]

NoEmmet ==
    [scoping |-> "block", includeLanguages |-> {}, activated |-> "no", listening |-> FALSE,
     registeredCompletionProviders |-> <<>>, registrations |-> <<>>, changes |-> 0]

EmmetIdle == emmet = NoEmmet /\ eOp = [op |-> "none"]

InputIdle ==
    /\ inputHistory = [elements |-> <<>>, index |-> 0]
    /\ inputEditor = [value |-> 0, texts |-> 0, steps |-> 0]

NoTreeResolve ==
    [pc |-> "idle", resolveTo |-> {}, resolveSingleChildDescendants |-> FALSE,
     calls |-> <<>>, ran |-> 0]

TreeIdle ==
    /\ treeProvider = [dir \in {"root", "sub"} |-> [name \in {"a", "b"} |-> "none"]]
    /\ treeResolve = NoTreeResolve

NoPrefs ==
    [model |-> "none", preferencesRenderer |-> 0, renderers |-> <<>>, resolutions |-> <<>>,
     changes |-> 0, isDisposed |-> FALSE]

PrefsIdle == prefs = NoPrefs /\ pOp = [op |-> "none"]

LastIdle == TreeIdle /\ PrefsIdle

\* The components added after the file service, at rest.
LaterIdle ==
    PureIdle /\ NlsIdle /\ WorkerIdle /\ DiffIdle /\ HtmlIdle /\ EmmetIdle /\ InputIdle
        /\ LastIdle

WorkbenchIdle == ChatIdle /\ ScmIdle /\ LaterIdle

\* A getGraphColorIndex that wraps to the first colour.
getGraphColorIndexWrapsToZero(index) ==
    IF index < Len(graphColors) - 1 THEN index + 1 ELSE 0

\* getGraphColorIndex(): the new value of _colorIndex, which it returns.
getGraphColorIndex(index) ==
    IF index < Len(graphColors) - 1 THEN index + 1 ELSE 1

\* appendHistoryItems, "Add first parent to the output": the input lanes from
\* position k on, given whether the first parent has been added.
RECURSIVE addFirstParent(_, _, _, _)
addFirstParent(inputSwimlanes, historyItem, k, firstParentAdded) ==
    IF k > Len(inputSwimlanes) THEN [out |-> <<>>, firstParentAdded |-> firstParentAdded]
    ELSE LET node == inputSwimlanes[k]
             own  == node.id = historyItem.id
             rest == addFirstParent(inputSwimlanes, historyItem, k + 1,
                                    firstParentAdded \/ own)
         IN  [rest EXCEPT !.out =
                 IF own /\ firstParentAdded THEN @
                 ELSE IF own THEN <<[node EXCEPT !.id = historyItem.parentIds[1]]>> \o @
                 ELSE <<node>> \o @]

\* An appendHistoryItems that adds no lane for the unprocessed parents.
addParentsNone(st, historyItem, i) == st

\* appendHistoryItems, "Add unprocessed parent(s) to the output", from parent i
\* (counted from 1) on, on st = [colorIndex, allocated, out].
RECURSIVE addParents(_, _, _)
addParents(st, historyItem, i) ==
    IF i > Len(historyItem.parentIds) THEN st
    ELSE LET color == getGraphColorIndex(st.colorIndex)
         IN  addParents([colorIndex |-> color,
                         allocated |-> Append(st.allocated, color),
                         out |-> Append(st.out, [id |-> historyItem.parentIds[i],
                                                 color |-> color])],
                        historyItem, i + 1)

\* The body of the loop of appendHistoryItems for one history item, on
\* st = [colorIndex, allocated, swimlanes, added].  A view model is recorded
\* with the colours allocated for it.
appendHistoryItem(st, historyItem) ==
    LET inputSwimlanes == st.swimlanes
        first == addFirstParent(inputSwimlanes, historyItem, 1, FALSE)
        done  == IF Len(historyItem.parentIds) > 0
                 THEN addParents([colorIndex |-> st.colorIndex, allocated |-> st.allocated,
                                  out |-> first.out],
                                 historyItem, IF first.firstParentAdded THEN 2 ELSE 1)
                 ELSE [colorIndex |-> st.colorIndex, allocated |-> st.allocated,
                       out |-> <<>>]
    IN  [colorIndex |-> done.colorIndex,
         allocated |-> done.allocated,
         swimlanes |-> done.out,
         added |-> Append(st.added, [historyItem |-> historyItem,
                                     inputSwimlanes |-> inputSwimlanes,
                                     outputSwimlanes |-> done.out,
                                     colors |-> SubSeq(done.allocated,
                                                       Len(st.allocated) + 1,
                                                       Len(done.allocated))])]

\* appendHistoryItems(historyItems)
RECURSIVE appendHistoryItems(_, _, _)
appendHistoryItems(st, historyItems, index) ==
    IF index > Len(historyItems) THEN st
    ELSE appendHistoryItems(appendHistoryItem(st, historyItems[index]), historyItems,
                            index + 1)

AppendHistoryItems(historyItems) ==
    LET st == appendHistoryItems([colorIndex |-> colorIndex, allocated |-> allocated,
                                  swimlanes |-> swimlanes, added |-> <<>>],
                                 historyItems, 1)
    IN  /\ Len(st.allocated) <= MaxAllocations
        /\ \A k \in DOMAIN st.added : Len(st.added[k].outputSwimlanes) <= MaxSwimlanes
        /\ colorIndex' = st.colorIndex
        /\ allocated' = st.allocated
        /\ swimlanes' = st.swimlanes
        /\ sOp' = [NoScmOp EXCEPT !.op = "appendHistoryItems", !.added = st.added]

\* clearHistoryItems()
ClearHistoryItems ==
    /\ colorIndex' = -1
    /\ swimlanes' = <<>>
    /\ allocated' = <<>>
    /\ sOp' = [NoScmOp EXCEPT !.op = "clearHistoryItems"]

\* Array.prototype.findIndex(node => node.id === id): 0-based, -1 if none.
findIndex(nodes, id) ==
    IF \E k \in DOMAIN nodes : nodes[k].id = id
    THEN (CHOOSE k \in DOMAIN nodes :
            nodes[k].id = id /\ \A j \in 1..(k - 1) : nodes[j].id # id) - 1
    ELSE -1

\* renderSCMHistoryItemGraph(historyItemViewModel): whether it throws (the
\* read of .color of an output lane that does not exist), the lane and colour
\* of the commit's circle and the number of circle elements appended.
renderSCMHistoryItemGraph(historyItemViewModel) ==
    LET historyItem == historyItemViewModel.historyItem
        inputSwimlanes == historyItemViewModel.inputSwimlanes
        outputSwimlanes == historyItemViewModel.outputSwimlanes
        inputIndex == findIndex(inputSwimlanes, historyItem.id)
        circleIndex == IF inputIndex # -1 THEN inputIndex ELSE Len(inputSwimlanes)
    IN  IF inputIndex = -1 /\ circleIndex >= Len(outputSwimlanes)
        THEN [NoGraph EXCEPT !.threw = TRUE, !.circleIndex = circleIndex]
        ELSE [index |-> 0, threw |-> FALSE,
              circles |-> IF Len(historyItem.parentIds) = 1 THEN 1 ELSE 2,
              circleIndex |-> circleIndex,
              circleColorIndex |-> IF inputIndex # -1
                                   THEN inputSwimlanes[inputIndex + 1].color
                                   ELSE outputSwimlanes[circleIndex + 1].color]

\* The view renders the k-th view model added by the last appendHistoryItems.
RenderHistoryItemGraph(k) ==
    /\ sOp.op \in {"appendHistoryItems", "render"}
    /\ k \in DOMAIN sOp.added
    /\ sOp' = [sOp EXCEPT !.op = "render",
                          !.rendered = [renderSCMHistoryItemGraph(sOp.added[k])
                                            EXCEPT !.index = k]]
    /\ UNCHANGED <<colorIndex, swimlanes, allocated>>

(***************************************************************************)
(*        Strings are sequences of characters (one-character strings).     *)
(***************************************************************************)

\* All strings over an alphabet of at most n characters.
StringsUpTo(alphabet, n) == UNION {[1..k -> alphabet] : k \in 0..n}

\* A lastIndexOf that finds the first occurrence.
firstIndexOf(str, ch) ==
    IF \E k \in DOMAIN str : str[k] = ch
    THEN (CHOOSE k \in DOMAIN str : str[k] = ch /\ \A j \in 1..(k - 1) : str[j] # ch) - 1
    ELSE -1

\* String.prototype.lastIndexOf(ch): 0-based, -1 if absent.
lastIndexOf(str, ch) ==
    IF \E k \in DOMAIN str : str[k] = ch
    THEN (CHOOSE k \in DOMAIN str :
            str[k] = ch /\ \A j \in (k + 1)..Len(str) : str[j] # ch) - 1
    ELSE -1

(***************************************************************************)
(*                 nls.js: resolveLanguagePackLocale                       *)
(***************************************************************************)

\* The requested locales: strings of up to five characters over a letter and
\* the dash; undefined is passed as well.
MaxLocaleLen == 5

Locales == StringsUpTo({"z", "-"}, MaxLocaleLen)

\* The locales that languagepacks.json may hold a pack for.
PackLocales == {<<"z">>, <<"z", "-">>, <<"z", "-", "z">>, <<"z", "-", "z", "-", "z">>,
                <<"-", "z">>, <<"z", "z">>}

\* resolveLanguagePackLocale(languagePacks, locale): the value returned and
\* the number of times the body of the while loop ran.  languagePacks is given
\* by the set of locales it has a pack for.
RECURSIVE resolveLanguagePackLocale(_, _, _)
resolveLanguagePackLocale(languagePacks, locale, iterations) ==
    IF locale = Undefined \/ locale = <<>>
    THEN [value |-> Undefined, iterations |-> iterations]
    ELSE IF locale \in languagePacks
    THEN [value |-> locale, iterations |-> iterations + 1]
    ELSE LET index == lastIndexOf(locale, "-")
         IN  IF index > 0
             THEN resolveLanguagePackLocale(languagePacks, SubSeq(locale, 1, index),
                                            iterations + 1)
             ELSE [value |-> Undefined, iterations |-> iterations + 1]

LocaleInit ==
    /\ pureCall \in [fn : {"resolveLanguagePackLocale"},
                     languagePacks : SUBSET PackLocales,
                     locale : Locales \cup {Undefined}]
    /\ pureResult = <<"pending">>

ResolveLanguagePackLocale ==
    /\ pureCall.fn = "resolveLanguagePackLocale"
    /\ pureResult = <<"pending">>
    /\ pureResult' = <<"returned",
                       resolveLanguagePackLocale(pureCall.languagePacks, pureCall.locale, 0)>>
    /\ UNCHANGED pureCall

(***************************************************************************)
(*                           nls.ts: _format                               *)
(***************************************************************************)

\* The messages: strings of up to four characters over braces, digits and a
\* vowel; the arguments: up to two values of the types _format accepts.
MaxMessageLen == 4
MaxArgs == 2

Messages == StringsUpTo({"{", "}", "0", "1", "a"}, MaxMessageLen)

FormatArgs ==
    LET values == {<<"string", <<"x">>>>, <<"number", 7>>, <<"boolean", TRUE>>,
                   Undefined, <<"null">>}
    IN  UNION {[1..k -> values] : k \in 0..MaxArgs}

\* String(arg) for the values above.
String(arg) ==
    CASE arg[1] = "string" -> arg[2]
      [] arg[1] = "number" -> <<"7">>
      [] arg[1] = "boolean" -> <<"t", "r", "u", "e">>
      [] arg[1] = "null" -> <<"n", "u", "l", "l">>
      [] OTHER -> <<"u", "n", "d", "e", "f", "i", "n", "e", "d">>

\* The number of digits of str from position i (1-based) on.
RECURSIVE Digits(_, _)
Digits(str, i) ==
    IF i <= Len(str) /\ str[i] \in {"0", "1"} THEN 1 + Digits(str, i + 1) ELSE 0

\* args[index] of JavaScript for a digit character index: undefined past the end.
ArgAt(args, digit) ==
    LET index == IF digit = "0" THEN 0 ELSE 1
    IN  IF index < Len(args) THEN args[index + 1] ELSE Undefined

\* The replacer function of lines 25-35, for a match {rest}.
Replacer(match, rest, args) ==
    LET index == rest[1]
        arg   == ArgAt(args, index)
    IN  IF arg[1] \in {"string", "number", "boolean", "undefined", "null"}
        THEN String(arg) ELSE match

\* message.replace(/\{(\d+)\}/g, replacer), from position i (1-based) on.
RECURSIVE ReplacePlaceholders(_, _, _)
ReplacePlaceholders(message, i, args) ==
    IF i > Len(message) THEN <<>>
    ELSE LET n == Digits(message, i + 1)
         IN  IF message[i] = "{" /\ n >= 1 /\ i + n + 1 <= Len(message)
                /\ message[i + n + 1] = "}"
             THEN Replacer(SubSeq(message, i, i + n + 1), SubSeq(message, i + 1, i + n),
                           args)
                  \o ReplacePlaceholders(message, i + n + 2, args)
             ELSE <<message[i]>> \o ReplacePlaceholders(message, i + 1, args)

\* result.replace(/[aouei]/g, '$&$&')
RECURSIVE DoubleVowels(_)
DoubleVowels(str) ==
    IF str = <<>> THEN <<>>
    ELSE (IF Head(str) \in {"a", "o", "u", "e", "i"} THEN <<Head(str), Head(str)>>
          ELSE <<Head(str)>>) \o DoubleVowels(Tail(str))

\* _format(message, args)
format(message, args, isPseudo) ==
    LET result == IF Len(args) = 0 THEN message ELSE ReplacePlaceholders(message, 1, args)
    IN  IF isPseudo THEN <<"[">> \o DoubleVowels(result) \o <<"]">> ELSE result

FormatInit ==
    /\ pureCall \in [fn : {"_format"}, message : Messages, args : FormatArgs,
                     isPseudo : BOOLEAN]
    /\ pureResult = <<"pending">>

Format ==
    /\ pureCall.fn = "_format"
    /\ pureResult = <<"pending">>
    /\ pureResult' = <<"returned", format(pureCall.message, pureCall.args, pureCall.isPseudo)>>
    /\ UNCHANGED pureCall

(***************************************************************************)
(*                   nls.js: resolveNLSConfiguration                       *)
(***************************************************************************)

\* The context of a process start: VSCODE_DEV, the user locale, whether a
\* commit and a user data path are given.
NlsContexts ==
    LET all == [dev : BOOLEAN, userLocale : {"pseudo", "en", "en-us", "de"},
                commit : BOOLEAN, userDataPath : BOOLEAN]
        good == [dev |-> FALSE, userLocale |-> "de", commit |-> TRUE, userDataPath |-> TRUE]
    IN  {c \in all : Cardinality({f \in DOMAIN c : c[f] # good[f]}) <= 1}

\* What languagepacks.json holds for the user locale: the file cannot be read
\* or parsed, parses to a falsy value, has no pack for a prefix of the locale,
\* has a pack entry without a string hash, without translations, without a
\* string path for 'vscode', with a path that does not exist, or a good one.
LanguagePacks ==
    {"unreadable", "falsy", "noLocale", "noHash", "noTranslations", "noMainPath",
     "mainPathMissing", "ok"}

\* The step of a rebuild that fails, if any: rm, mkdir, the read or parse of
\* one of the three files, the merge of their contents, one of the two writes.
NlsFailures ==
    {"none", "rimraf", "mkdirp", "readKeys", "readMessages", "readPack", "merge",
     "writeMessages", "writeConfig"}

\* defaultNLSConfiguration
defaultNLSConfiguration == [resolvedLocale |-> "en", languagePack |-> FALSE]

\* lines 160-247, the block guarded by try: what it does to the cache and
\* whether it returns a configuration or throws.
NlsTryBlock(packs, fail, cache) ==
    LET default == <<"return", defaultNLSConfiguration>>
        result  == <<"return", [resolvedLocale |-> "de", languagePack |-> TRUE]>>
        swept   == IF cache.marker /\ fail # "rimraf" THEN NoCache ELSE cache
        made    == [swept EXCEPT !.dir = TRUE]
    IN  IF packs # "ok" THEN [outcome |-> default, cache |-> cache]
        ELSE IF cache.marker /\ fail = "rimraf"
        THEN [outcome |-> <<"throw">>, cache |-> cache]
        ELSE IF swept.dir THEN [outcome |-> result, cache |-> swept]
        ELSE IF fail = "mkdirp" THEN [outcome |-> <<"throw">>, cache |-> swept]
        ELSE IF fail \in {"readKeys", "readMessages", "readPack", "merge"}
        THEN [outcome |-> <<"throw">>, cache |-> made]
        ELSE IF fail = "writeMessages"
        THEN [outcome |-> <<"throw">>, cache |-> [made EXCEPT !.messagesFile = "partial"]]
        ELSE IF fail = "writeConfig"
        THEN [outcome |-> <<"throw">>, cache |-> [made EXCEPT !.messagesFile = "complete"]]
        ELSE [outcome |-> result, cache |-> [made EXCEPT !.messagesFile = "complete"]]

\* A catch clause that throws the error again.
NlsCatchRethrows(outcome) == <<"rejected">>

\* catch (error) { console.error(...) } followed by the return of line 255.
NlsCatch(outcome) == <<"resolved", defaultNLSConfiguration>>

\* resolveNLSConfiguration: how the promise settles and the cache it leaves.
resolveNLSConfiguration(context, packs, fail, cache) ==
    IF \/ context.dev
       \/ context.userLocale \in {"pseudo", "en", "en-us"}
       \/ ~context.commit
       \/ ~context.userDataPath
    THEN [settled |-> <<"resolved", defaultNLSConfiguration>>, cache |-> cache]
    ELSE LET try == NlsTryBlock(packs, fail, cache)
         IN  [settled |-> IF try.outcome[1] = "throw" THEN NlsCatch(try.outcome)
                          ELSE <<"resolved", try.outcome[2]>>,
              cache   |-> try.cache]

NlsInit ==
    /\ nlsCache = NoCache
    /\ nlsOp = [op |-> "none"]

\* A process start.
ResolveNLSConfiguration(context, packs, fail) ==
    LET r == resolveNLSConfiguration(context, packs, fail, nlsCache)
    IN  /\ nlsCache' = r.cache
        /\ nlsOp' = [op |-> "resolve", context |-> context, packs |-> packs, fail |-> fail,
                     settled |-> r.settled]

\* The user of the configuration finds the messages file unusable and writes
\* the corrupt marker named by the configuration.
WriteCorruptMarker ==
    /\ nlsOp.op = "resolve"
    /\ nlsOp.settled[1] = "resolved"
    /\ nlsOp.settled[2].languagePack
    /\ ~nlsCache.marker
    /\ nlsCache' = [nlsCache EXCEPT !.marker = TRUE]
    /\ nlsOp' = [op |-> "marker"]

(***************************************************************************)
(*              SharedProcessWorkerService.createWorker                    *)
(***************************************************************************)

MaxWorkers == 2
MaxWorkerEvents == 3

\* What a worker posts: the request message or something else.
WorkerMessages == {"SHARED_PROCESS_WORKER_REQUEST", "other"}

\* A worker as createWorker leaves it: the window port transferred with the
\* relay message, the worker port held, the load message posted.
NewWorker ==
    [relays |-> 1, windowPort |-> "transferred", workerPort |-> "held",
     requests |-> 0, responses |-> 0, portsPosted |-> 0, errorLogs |-> 0,
     uncaught |-> 0, events |-> 0]

\* An onmessage handler that answers every message.
onmessageAnswersAll(worker, data) ==
    [worker EXCEPT !.responses = @ + 1, !.portsPosted = @ + 1, !.workerPort = "transferred"]

\* worker.onmessage.  postMessage with a port that was transferred before
\* throws a DataCloneError and posts nothing.
onmessage(worker, data) ==
    IF data = "SHARED_PROCESS_WORKER_REQUEST"
    THEN IF worker.workerPort = "held"
         THEN [worker EXCEPT !.responses = @ + 1, !.portsPosted = @ + 1,
                             !.workerPort = "transferred"]
         ELSE [worker EXCEPT !.uncaught = @ + 1]
    ELSE [worker EXCEPT !.errorLogs = @ + 1]

CreateWorker ==
    /\ Len(workers) < MaxWorkers
    /\ workers' = Append(workers, NewWorker)
    /\ kOp' = [op |-> "createWorker", worker |-> Len(workers) + 1, data |-> "", before |-> NewWorker]

WorkerMessage(w, data) ==
    /\ workers[w].events < MaxWorkerEvents
    /\ LET received == [workers[w] EXCEPT
                           !.events = @ + 1,
                           !.requests = IF data = "other" THEN @ ELSE @ + 1]
       IN  workers' = [workers EXCEPT ![w] = onmessage(received, data)]
    /\ kOp' = [op |-> "message", worker |-> w, data |-> data, before |-> workers[w]]

\* worker.onerror
WorkerError(w) ==
    /\ workers[w].events < MaxWorkerEvents
    /\ workers' = [workers EXCEPT ![w].events = @ + 1, ![w].errorLogs = @ + 1]
    /\ kOp' = [op |-> "error", worker |-> w, data |-> "", before |-> workers[w]]

(***************************************************************************)
(*             ScmMultiDiffSourceResolver.resolveDiffSource                *)
(***************************************************************************)

\* The repositories of the SCM service, the groups of the named repository's
\* provider and the badges of the activities of the SCM view container.
RepositoryUris == {"repositoryUri", "otherUri"}
GroupIds == {"groupId", "otherId"}
Badges == {"ProgressBadge", "NumberBadge"}

\* The value of the observable awaited at pc: the repository found by its root
\* uri, the group found by its id, no activity with a progress badge.
AwaitedValue(pc, env) ==
    CASE pc = "awaitRepository" -> "repositoryUri" \in env.repositories
      [] pc = "awaitGroup" -> "groupId" \in env.groups
      [] pc = "awaitNoBadge" -> "ProgressBadge" \notin env.activities
      [] OTHER -> FALSE

\* waitForState(observable): the promise is resolved as soon as the observable
\* is seen with a truthy value, at the call or at a later change event.
waitForState(resolve, env) ==
    IF AwaitedValue(resolve.pc, env)
    THEN [pc |-> CASE resolve.pc = "awaitRepository" -> "gotRepository"
                   [] resolve.pc = "awaitGroup" -> "gotGroup"
                   [] OTHER -> "gotNoBadge",
          observed |-> Append(resolve.observed, resolve.pc)]
    ELSE resolve

\* A resolveDiffSource that does not wait for the group.
AfterAwaitSkipsGroup(pc) ==
    CASE pc = "gotRepository" -> "awaitNoBadge"
      [] pc = "gotGroup" -> "awaitNoBadge"
      [] OTHER -> "completed"

\* resolveDiffSource: what follows each await.
AfterAwait(pc) ==
    CASE pc = "gotRepository" -> "awaitGroup"
      [] pc = "gotGroup" -> "awaitNoBadge"
      [] OTHER -> "completed"

ResolveDiffSource ==
    /\ diffResolve.pc = "idle"
    /\ diffResolve' = waitForState([diffResolve EXCEPT !.pc = "awaitRepository"], diffEnv)
    /\ UNCHANGED diffEnv

ContinueResolveDiffSource ==
    /\ diffResolve.pc \in {"gotRepository", "gotGroup", "gotNoBadge"}
    /\ diffResolve' = waitForState([diffResolve EXCEPT !.pc = AfterAwait(@)], diffEnv)
    /\ UNCHANGED diffEnv

\* A change of the environment with its change event: the observable that is
\* being awaited is computed again.
ChangeDiffEnv(env) ==
    /\ diffEnv' = env
    /\ diffResolve' = waitForState(diffResolve, env)

Toggle(set, e) == IF e \in set THEN set \ {e} ELSE set \cup {e}

ChangeRepositories(r) == ChangeDiffEnv([diffEnv EXCEPT !.repositories = Toggle(@, r)])

ChangeResourceGroups(g) == ChangeDiffEnv([diffEnv EXCEPT !.groups = Toggle(@, g)])

ChangeActivity(a) == ChangeDiffEnv([diffEnv EXCEPT !.activities = Toggle(@, a)])

(***************************************************************************)
(*                          createHtmlProject                              *)
(***************************************************************************)

\* The number of calls of the project and changes of the documents considered.
MaxHtmlSteps == 5

DocumentUris == {"a.html", "b.html"}

\* What regions.getImportedScripts() returns for the document.
ImportedScripts == {<<>>, <<"https://cdn/x.js", "lib.js">>}

JQUERY_PATH == "jquery.d.ts"

\* asFileName(uri) of the uri converter.
asFileName(uri) == <<"fileName", uri>>

\* The file names pushed for the imported scripts: web urls are skipped.
RECURSIVE ImportedFileNames(_)
ImportedFileNames(scripts) ==
    IF scripts = <<>> THEN <<>>
    ELSE (IF Head(scripts) = "https://cdn/x.js" THEN <<>>
          ELSE <<asFileName(Head(scripts))>>) \o ImportedFileNames(Tail(scripts))

\* document.uri.toString() + '::' + document.version
ProjectVersionOf(uri, version) == <<uri, "::", version>>

\* An updateRootFiles that computes the list at every call.
updateRootFilesAlways(project, documents, uri, scripts) ==
    [project EXCEPT
        !.projectVersion = ProjectVersionOf(uri, documents[uri]),
        !.currentRootFiles = <<JQUERY_PATH, asFileName(uri)>> \o ImportedFileNames(scripts)]

\* updateRootFiles(uri, languageService)
updateRootFiles(project, documents, uri, scripts) ==
    IF documents[uri] = 0 THEN project
    ELSE IF ProjectVersionOf(uri, documents[uri]) = project.projectVersion THEN project
    ELSE [project EXCEPT
            !.projectVersion = ProjectVersionOf(uri, documents[uri]),
            !.currentRootFiles = <<JQUERY_PATH, asFileName(uri)>> \o ImportedFileNames(scripts)]

\* A reaction on the promise of service id: run in the order of registration
\* once the promise is resolved.
Register(project, id, job) ==
    IF project.services[id].created
    THEN [project EXCEPT !.jobs = Append(@, job)]
    ELSE [project EXCEPT !.services[id].reactions = Append(@, job)]

\* What the root files were computed from and are, before a step.
ProjectBefore ==
    [projectVersion |-> htmlProject.projectVersion,
     currentRootFiles |-> htmlProject.currentRootFiles]

\* The document is opened or changed by the client.
ChangeDocument(uri) ==
    /\ htmlProject.steps < MaxHtmlSteps
    /\ htmlDocuments' = [htmlDocuments EXCEPT ![uri] = @ + 1]
    /\ htmlProject' = [htmlProject EXCEPT !.steps = @ + 1]
    /\ hOp' = [op |-> "change", uri |-> uri, before |-> <<>>]

CloseDocument(uri) ==
    /\ htmlProject.steps < MaxHtmlSteps
    /\ htmlDocuments[uri] > 0
    /\ htmlDocuments' = [htmlDocuments EXCEPT ![uri] = 0]
    /\ htmlProject' = [htmlProject EXCEPT !.steps = @ + 1]
    /\ hOp' = [op |-> "close", uri |-> uri, before |-> <<>>]

\* getLanguageService(uri) up to its await.
GetLanguageService(uri) ==
    /\ htmlProject.steps < MaxHtmlSteps
    /\ LET fresh   == htmlProject.languageServicePromise = 0
           id      == IF fresh THEN Len(htmlProject.services) + 1
                      ELSE htmlProject.languageServicePromise
           started == IF fresh
                      THEN [htmlProject EXCEPT
                              !.services = Append(@, [created |-> FALSE, disposed |-> FALSE,
                                                      reactions |-> <<>>]),
                              !.languageServicePromise = id]
                      ELSE htmlProject
       IN  htmlProject' = [Register(started, id, <<"getLanguageService", uri, id>>)
                              EXCEPT !.steps = @ + 1]
    /\ hOp' = [op |-> "call", uri |-> uri, before |-> <<>>]
    /\ UNCHANGED htmlDocuments

\* createTypeScriptLanguageService completes: the promise is resolved.
LanguageServiceCreated(id) ==
    /\ ~htmlProject.services[id].created
    /\ htmlProject' = [htmlProject EXCEPT
                          !.services[id].created = TRUE,
                          !.services[id].reactions = <<>>,
                          !.jobs = @ \o htmlProject.services[id].reactions]
    /\ hOp' = [op |-> "created", uri |-> "", before |-> <<>>]
    /\ UNCHANGED htmlDocuments

\* The next promise job: getLanguageService after its await (updateRootFiles
\* and return), the delivery of its result to the caller, or the dispose
\* registered by reload.
RunJob(scripts) ==
    /\ htmlProject.jobs # <<>>
    /\ LET job  == Head(htmlProject.jobs)
           rest == [htmlProject EXCEPT !.jobs = Tail(@)]
       IN  /\ job[1] # "getLanguageService" => scripts = <<>>
           /\ htmlProject' =
                 CASE job[1] = "getLanguageService" ->
                        [updateRootFiles(rest, htmlDocuments, job[2], scripts)
                            EXCEPT !.jobs = Append(@, <<"deliver", job[2], job[3]>>)]
                   [] job[1] = "dispose" -> [rest EXCEPT !.services[job[3]].disposed = TRUE]
                   [] OTHER -> rest
           /\ hOp' = [op |-> job[1], uri |-> job[2],
                       before |-> IF job[1] = "getLanguageService" THEN ProjectBefore ELSE <<>>]
    /\ UNCHANGED htmlDocuments

\* reload()
Reload ==
    /\ htmlProject.steps < MaxHtmlSteps
    /\ LET id == htmlProject.languageServicePromise
       IN  htmlProject' =
              [(IF id = 0 THEN htmlProject ELSE Register(htmlProject, id, <<"dispose", "", id>>))
                  EXCEPT !.languageServicePromise = 0, !.steps = @ + 1]
    /\ hOp' = [op |-> "reload", uri |-> "", before |-> <<>>]
    /\ UNCHANGED htmlDocuments

(***************************************************************************)
(*                 Emmet extension: completion providers                   *)
(***************************************************************************)

MaxConfigurationChanges == 3

\* The language ids of the model, in the order of the keys of a mapping: a
\* mode of LANGUAGE_MODES and two custom ids.
EmmetLanguages == {"html", "vue", "blade"}
LanguageOrder == <<"html", "vue", "blade">>

\* Object.keys(LANGUAGE_MODES)
LANGUAGE_MODES == <<"html", "css">>

\* getMappingForIncludedLanguages(): the keys of the emmet.includeLanguages
\* setting that name a base language of LANGUAGE_MODES.
getMappingForIncludedLanguages(e) ==
    SelectSeq(LanguageOrder, LAMBDA language : language \in e.includeLanguages)

\* The value of 'completionProvider' at line 138, outside the block of its
\* declaration 'let completionProvider' (line 128): a ReferenceError where the
\* declaration is block scoped; where the build emits 'var' for it, the
\* provider at first start and undefined afterwards.
completionProviderAt138(e, isFirstStart) ==
    IF e.scoping = "block" THEN "ReferenceError"
    ELSE IF isFirstStart THEN "DefaultCompletionItemProvider" ELSE "undefined"

\* lines 135-141: the loop over the included languages; stops where it throws.
RECURSIVE registerIncluded(_, _, _)
registerIncluded(e, languages, completionProvider) ==
    IF languages = <<>> THEN [emmet |-> e, threw |-> FALSE]
    ELSE LET language == Head(languages)
         IN  IF \E k \in DOMAIN e.registeredCompletionProviders :
                    e.registeredCompletionProviders[k] = language
             THEN registerIncluded(e, Tail(languages), completionProvider)
             ELSE IF completionProvider = "ReferenceError" THEN [emmet |-> e, threw |-> TRUE]
             ELSE registerIncluded(
                     [e EXCEPT !.registrations = Append(@, <<language, completionProvider>>),
                               !.registeredCompletionProviders = Append(@, language)],
                     Tail(languages), completionProvider)

\* registerCompletionProviders(context, isFirstStart)
registerCompletionProviders(e, isFirstStart) ==
    LET first == IF isFirstStart
                 THEN [e EXCEPT !.registrations =
                          @ \o [k \in DOMAIN LANGUAGE_MODES |->
                                   <<LANGUAGE_MODES[k], "DefaultCompletionItemProvider">>]]
                 ELSE e
    IN  registerIncluded(first, getMappingForIncludedLanguages(first),
                         completionProviderAt138(first, isFirstStart))

\* activate(context): registerCompletionProviders at line 24, the listener of
\* configuration changes at the end; nothing after a throw.
ActivateEmmet ==
    /\ emmet.activated = "no"
    /\ LET r == registerCompletionProviders(emmet, TRUE)
       IN  emmet' = [r.emmet EXCEPT !.activated = IF r.threw THEN "threw" ELSE "done",
                                    !.listening = ~r.threw]
    /\ eOp' = [op |-> "activate"]

\* The setting emmet.includeLanguages changes; the listener of line 115 runs.
ChangeEmmetConfiguration(included) ==
    /\ emmet.changes < MaxConfigurationChanges
    /\ included # emmet.includeLanguages
    /\ LET changed == [emmet EXCEPT !.includeLanguages = included, !.changes = @ + 1]
       IN  emmet' = IF emmet.listening
                    THEN registerCompletionProviders(changed, FALSE).emmet
                    ELSE changed
    /\ eOp' = [op |-> "configuration"]

(***************************************************************************)
(*                        ChatInputPart: history                           *)
(***************************************************************************)

\* new HistoryNavigator(history, 50)
HistoryLimit == 50

\* The number of operations on the input that follow its construction.
MaxInputSteps == 7

\* The entries of the history are given by their text, the input state they
\* carry is left out.  Texts are numbered in the order they enter the
\* history, the stored history first; in the editor 0 is the empty text and
\* NewText a text that is not in the history.
NewText == -1

\* HistoryNavigator._onChange: the history is cut to the newest entries of
\* the limit and the cursor is put behind the last entry.
HistoryChanged(elements) ==
    LET kept == IF Len(elements) > HistoryLimit
                THEN SubSeq(elements, Len(elements) - HistoryLimit + 1, Len(elements))
                ELSE elements
    IN  [elements |-> kept, index |-> Len(kept) + 1]

\* HistoryNavigator.add(element): a set in the order of insertion; an element
\* that is in the set is taken out and added at the end.
HistoryAdd(history, element, isElementOfHistory) ==
    HistoryChanged(
        (IF isElementOfHistory
         THEN SelectSeq(history.elements, LAMBDA candidate : candidate # element)
         ELSE history.elements) \o <<element>>)

\* The cursor: current(), isLast(), previous() ?? first(), next().
HistoryCurrent(history) ==
    IF history.index \in DOMAIN history.elements THEN history.elements[history.index] ELSE 0

HistoryIsLast(history) ==
    (IF history.index \in DOMAIN history.elements THEN history.index ELSE 0)
        >= Len(history.elements)

HistoryPreviousOrFirst(history) ==
    LET moved == [history EXCEPT !.index = IF @ > 1 THEN @ - 1 ELSE 0]
    IN  IF history.index # 1 /\ HistoryCurrent(moved) # 0 THEN moved
        ELSE [history EXCEPT !.index = 1]

HistoryNext(history) ==
    [history EXCEPT !.index = IF @ <= Len(history.elements) THEN @ + 1 ELSE @]

\* An addToHistory that makes a new element for every query.
addToHistoryNewElement(history, query) == HistoryAdd(history, query, FALSE)

\* addToHistory(query): the element of the history with this text, if there
\* is one, is the one added.
addToHistory(history, query) ==
    HistoryAdd(history, query, \E k \in DOMAIN history.elements : history.elements[k] = query)

\* The text a value of the editor enters the history with.
TextOf(editor) == IF editor.value = NewText THEN editor.texts + 1 ELSE editor.value

\* The editor after a step that handed its value to addToHistory or not.
EditorAfter(editor, added, value) ==
    [value |-> value,
     texts |-> IF added /\ editor.value = NewText THEN editor.texts + 1 ELSE editor.texts,
     steps |-> editor.steps + 1]

\* The constructor: the history stored for the location, cut to the limit.
InputInit ==
    \E stored \in 0..HistoryLimit :
        /\ inputHistory = HistoryChanged([k \in 1..stored |-> k])
        /\ inputEditor = [value |-> 0, texts |-> stored, steps |-> 0]

\* The user edits the input: nothing, a text that is not in the history, or
\* the text of the oldest or of the newest entry.
TypeInput(kind) ==
    /\ inputEditor.steps < MaxInputSteps
    /\ \/ kind = "empty" /\ inputEditor' = EditorAfter(inputEditor, FALSE, 0)
       \/ kind = "new" /\ inputEditor' = EditorAfter(inputEditor, FALSE, NewText)
       \/ kind = "oldest" /\ inputHistory.elements # <<>>
                          /\ inputEditor' = EditorAfter(inputEditor, FALSE, inputHistory.elements[1])
       \/ kind = "newest" /\ inputHistory.elements # <<>>
                          /\ inputEditor' = EditorAfter(inputEditor, FALSE,
                                                inputHistory.elements[Len(inputHistory.elements)])
    /\ inputEditor'.value # inputEditor.value
    /\ UNCHANGED inputHistory

\* acceptInput(userQuery), the query being the value of the input or absent.
AcceptInput(withQuery) ==
    /\ inputEditor.steps < MaxInputSteps
    /\ inputHistory' = IF withQuery /\ inputEditor.value # 0
                       THEN addToHistory(inputHistory, TextOf(inputEditor))
                       ELSE inputHistory
    /\ inputEditor' = EditorAfter(inputEditor, withQuery, 0)

\* navigateHistory(previous)
NavigateHistory(previous) ==
    LET navigated    == IF previous THEN HistoryPreviousOrFirst(inputHistory)
                        ELSE HistoryNext(inputHistory)
        historyEntry == HistoryCurrent(navigated)
        currentValue == TextOf(inputEditor)
        isInHistory  == \E k \in DOMAIN navigated.elements : navigated.elements[k] = currentValue
        adds         == currentValue # 0 /\ (~isInHistory \/ HistoryIsLast(navigated))
    IN  /\ inputEditor.steps < MaxInputSteps
        /\ inputHistory' = IF adds THEN addToHistory(navigated, currentValue) ELSE navigated
        /\ inputEditor' = EditorAfter(inputEditor, adds, historyEntry)

(***************************************************************************)
(*            FileService2.resolveFile: the recursion of toFileStat        *)
(***************************************************************************)

\* What the provider stores below the resolved resource: two directories,
\* each with up to two entries.  An entry is a file or one of the
\* directories: an entry for a directory that holds it (itself or its
\* parent) is a symbolic link that closes a cycle.
TreeDirs == {"root", "sub"}
TreeNames == <<"a", "b">>
TreeProviders ==
    [TreeDirs -> [{TreeNames[k] : k \in DOMAIN TreeNames} -> {"none", "file"} \cup TreeDirs]]

\* options.resolveTo: resources below the resolved one, as paths from it.
ResolveToPaths == {<<"a">>, <<"a", "b">>}

\* The keys of the trie: the resource and the entries of resolveTo.
TrieKeys(resolveTo) == {<<>>} \cup resolveTo

\* joinPath(resource, name).  A path longer than every key a trie can hold
\* is a prefix of no key, as is every path below it: it stands for those.
joinTreePath(path, name) ==
    IF \A key \in TrieKeys(ResolveToPaths) : Len(path) > Len(key) THEN path
    ELSE Append(path, name)

\* The argument 'recurse' of toFileStat (lines 409-422): trie.findSuperstr
\* or trie.get finds the resource, or the single child of its directory is
\* resolved.  siblings is 0 where the code passes undefined.
recurse(call, resolve) ==
    IF \E key \in TrieKeys(resolve.resolveTo) : IsPrefix(call.path, key) THEN TRUE
    ELSE IF call.node \in TreeDirs /\ resolve.resolveSingleChildDescendants
    THEN call.siblings = 1
    ELSE FALSE

\* provider.readdir(resource): the entries of the directory, by name.
treeReaddir(node) ==
    SelectSeq(TreeNames, LAMBDA name : treeProvider[node][name] # "none")

\* toFileStat: the calls it makes for the entries of a directory it recurses
\* into, none for a file or a directory it does not recurse into.
toFileStat(call, resolve) ==
    IF call.node \in TreeDirs /\ recurse(call, resolve)
    THEN LET entries == treeReaddir(call.node)
         IN  [k \in DOMAIN entries |->
                 [path |-> joinTreePath(call.path, entries[k]),
                  node |-> treeProvider[call.node][entries[k]],
                  siblings |-> Len(entries)]]
    ELSE <<>>

TreeInit ==
    /\ treeProvider \in TreeProviders
    /\ treeResolve = NoTreeResolve

\* resolveFile(resource, options) up to the first toFileStat: the resource is
\* the directory "root" of the provider.
ResolveFile(resolveTo, resolveSingleChildDescendants) ==
    /\ treeResolve.pc = "idle"
    /\ treeResolve' = [pc |-> "running", resolveTo |-> resolveTo,
                       resolveSingleChildDescendants |-> resolveSingleChildDescendants,
                       calls |-> <<[path |-> <<>>, node |-> "root", siblings |-> 0]>>,
                       ran |-> 0]
    /\ UNCHANGED treeProvider

\* One toFileStat call runs; resolveFile returns when none is left.
ToFileStat ==
    /\ treeResolve.pc = "running"
    /\ LET calls == toFileStat(Head(treeResolve.calls), treeResolve) \o Tail(treeResolve.calls)
       IN  treeResolve' = [treeResolve EXCEPT
                              !.calls = calls,
                              !.ran = (@ + 1) % 2,
                              !.pc = IF calls = <<>> THEN "returned" ELSE "running"]
    /\ UNCHANGED treeProvider

(***************************************************************************)
(*                     PreferencesEditorContribution                       *)
(***************************************************************************)

\* Most changes of the editor's model in one run of the model.
MaxModelChanges == 3

\* The models the editor shows, by uri, and what resolvePreferencesEditorModel
\* resolves with: default settings, another preferences model, or null.
PrefsModels == {"defaultSettings", "defaultKeybindings"}
EditorModels == {"DefaultSettings", "SettingsEditorModel", "null"}

\* disposePreferencesRenderer()
disposePreferencesRenderer(p) ==
    IF p.preferencesRenderer # 0
    THEN [p EXCEPT !.renderers[p.preferencesRenderer].disposed = TRUE,
                   !.preferencesRenderer = 0]
    ELSE p

\* onModelChanged() up to the resolution of the preferences model.
ChangeEditorModel(model) ==
    /\ ~prefs.isDisposed
    /\ prefs.changes < MaxModelChanges
    /\ model # prefs.model
    /\ prefs' = [disposePreferencesRenderer(prefs) EXCEPT
                    !.model = model,
                    !.resolutions = IF model = "none" THEN @ ELSE Append(@, model),
                    !.changes = @ + 1]
    /\ pOp' = [op |-> "modelChanged", threw |-> FALSE]

\* The callback of lines 165-170 for the i-th resolution in progress.
\* createPreferencesRenderer returns null for a model that is no
\* DefaultSettings, and render() of null throws.
ResolvedEditorModel(i, editorModel) ==
    /\ i \in DOMAIN prefs.resolutions
    /\ LET rest == [prefs EXCEPT !.resolutions =
                       SubSeq(@, 1, i - 1) \o SubSeq(@, i + 1, Len(@))]
       IN  prefs' =
              CASE editorModel = "null" -> rest
                [] editorModel = "DefaultSettings" ->
                     [rest EXCEPT !.renderers = Append(@, [model |-> prefs.resolutions[i],
                                                           disposed |-> FALSE]),
                                  !.preferencesRenderer = Len(prefs.renderers) + 1]
                [] OTHER -> [rest EXCEPT !.preferencesRenderer = 0]
    /\ pOp' = [op |-> "resolved", threw |-> editorModel = "SettingsEditorModel"]

\* dispose(): the listener of onDidChangeModel is disposed with the contribution.
DisposePreferencesContribution ==
    /\ ~prefs.isDisposed
    /\ prefs' = [disposePreferencesRenderer(prefs) EXCEPT !.isDisposed = TRUE]
    /\ pOp' = [op |-> "dispose", threw |-> FALSE]

\* What a step of one component leaves alone: the other components.
WatcherOnly == UNCHANGED <<utilityVars, configVars, fileVars, workbenchVars>>
UtilityOnly == UNCHANGED <<watcherVars, configVars, fileVars, workbenchVars>>
ConfigOnly == UNCHANGED <<watcherVars, utilityVars, fileVars, workbenchVars>>
FileOnly == UNCHANGED <<watcherVars, utilityVars, configVars, workbenchVars>>
baseVars == <<watcherVars, utilityVars, configVars, fileVars>>

ChatOnly ==
    UNCHANGED <<baseVars, scmVars, pureVars, nlsVars, workerVars, diffVars, htmlVars, emmetVars,
                inputVars, lateVars>>
ScmOnly ==
    UNCHANGED <<baseVars, chatVars, pureVars, nlsVars, workerVars, diffVars, htmlVars, emmetVars,
                inputVars, lateVars>>
PureOnly ==
    UNCHANGED <<baseVars, chatVars, scmVars, nlsVars, workerVars, diffVars, htmlVars, emmetVars,
                inputVars, lateVars>>
NlsOnly ==
    UNCHANGED <<baseVars, chatVars, scmVars, pureVars, workerVars, diffVars, htmlVars, emmetVars,
                inputVars, lateVars>>
WorkerOnly ==
    UNCHANGED <<baseVars, chatVars, scmVars, pureVars, nlsVars, diffVars, htmlVars, emmetVars,
                inputVars, lateVars>>
DiffOnly ==
    UNCHANGED <<baseVars, chatVars, scmVars, pureVars, nlsVars, workerVars, htmlVars, emmetVars,
                inputVars, lateVars>>
HtmlOnly ==
    UNCHANGED <<baseVars, chatVars, scmVars, pureVars, nlsVars, workerVars, diffVars, emmetVars,
                inputVars, lateVars>>
EmmetOnly ==
    UNCHANGED <<baseVars, chatVars, scmVars, pureVars, nlsVars, workerVars, diffVars, htmlVars,
                inputVars, lateVars>>
TreeOnly ==
    UNCHANGED <<baseVars, chatVars, scmVars, pureVars, nlsVars, workerVars, diffVars, htmlVars,
                emmetVars, inputVars, prefsVars>>
PrefsOnly ==
    UNCHANGED <<baseVars, chatVars, scmVars, pureVars, nlsVars, workerVars, diffVars, htmlVars,
                emmetVars, inputVars, treeVars>>
InputOnly ==
    UNCHANGED <<baseVars, chatVars, scmVars, pureVars, nlsVars, workerVars, diffVars, htmlVars,
                emmetVars, lateVars>>

NextWatcher ==
    \/ \E requests \in SUBSET Requests : Watch(requests) /\ WatcherOnly
    \/ \E request \in Requests, installed \in BOOLEAN :
          DidWatchFail(request, installed) /\ WatcherOnly
    \/ \E i \in DOMAIN monitors, curr \in StatsValues, prev \in StatsValues :
          WatchFileCallback(i, curr, prev) /\ WatcherOnly
    \/ Stop /\ WatcherOnly

NextUtility ==
    \/ \E cfg \in Configurations : Start(cfg) /\ UtilityOnly
    \/ Spawn /\ UtilityOnly
    \/ \E code \in ExitCodes : Exit(code) /\ UtilityOnly
    \/ Kill /\ UtilityOnly
    \/ (\E details \in GoneDetails : ChildProcessGone(details)) /\ UtilityOnly
    \/ WaitForExit /\ UtilityOnly
    \/ WaitTimeout /\ UtilityOnly
    \/ \E w \in WindowIds : CloseWindow(w) /\ UtilityOnly

NextConfig ==
    \/ \E target \in ConfigurationTargets, key \in ConfigKeys, failAt \in FailAt :
          WriteConfiguration(target, key, failAt) /\ ConfigOnly
    \/ SettleWrite /\ ConfigOnly
    \/ \E resource \in ConfigResources : EditInEditor(resource) /\ ConfigOnly

InitWatcher == WatcherInit /\ UtilityIdle /\ ConfigIdle /\ FileIdle /\ WorkbenchIdle

InitUtility == UtilityInit /\ WatcherInit /\ ConfigIdle /\ FileIdle /\ WorkbenchIdle

InitConfig == ConfigInit /\ WatcherInit /\ UtilityIdle /\ FileIdle /\ WorkbenchIdle

SpecConfig == InitConfig /\ [][NextConfig]_vars

NextFile ==
    \/ \E source, target \in Resources, overwrite \in OverwriteArgs :
          MoveFile(source, target, overwrite) /\ FileOnly
    \/ \E source, target \in Resources, overwrite \in OverwriteArgs :
          CopyFile(source, target, overwrite) /\ FileOnly
    \/ \E resource \in Resources, useTrash, recursive \in BOOLEAN :
          Del(resource, useTrash, recursive) /\ FileOnly
    \/ \E resource \in Resources : CreateFolder(resource) /\ FileOnly
    \/ \E resource \in Resources : CreateFile(resource) /\ FileOnly
    \/ SettleFile /\ FileOnly

NextRegistry ==
    \/ \E scheme \in Schemes, capabilities \in RegistryProviders :
          RegisterProvider(scheme, capabilities) /\ FileOnly
    \/ \E i \in DOMAIN registrations : DisposeRegistration(i) /\ FileOnly
    \/ SetLegacyService /\ FileOnly

InitRegistry == FileIdle /\ WatcherInit /\ UtilityIdle /\ ConfigIdle /\ WorkbenchIdle

SpecRegistry == InitRegistry /\ [][NextRegistry]_vars

InitFile == FileInit /\ WatcherInit /\ UtilityIdle /\ ConfigIdle /\ WorkbenchIdle

SpecFile == InitFile /\ [][NextFile]_vars

\* C4: a writeConfiguration whose validation yields an error code issues no
\* updateContent call (not even the '{}' that creates a missing file), requests
\* no configuration reload, leaves every file as it was, and rejects with that code.
C4_NoWriteOnValidationError ==
    [][(cOp'.op = "writeConfiguration" /\ TypeOf(cOp'.validation.error) = "number")
        => /\ cOp'.updates = <<>>
           /\ ~cOp'.reloaded
           /\ configFiles' = configFiles
           /\ cOp'.result = <<"rejected", cOp'.validation.error>>
           /\ cOp'.validation.error[2] \in
                 {"ERROR_UNKNOWN_KEY", "ERROR_INVALID_TARGET", "ERROR_NO_WORKSPACE_OPENED",
                  "ERROR_CONFIGURATION_FILE_DIRTY", "ERROR_INVALID_CONFIGURATION"}]_vars

\* C4 witness: a write to a dirty workspace settings file was rejected with
\* CONFIGURATION_FILE_DIRTY and nothing was written.
C4_Witness ==
    /\ cOp.op = "writeConfiguration" /\ cOp.target = "WORKSPACE"
    /\ cOp.validation.error = Err("ERROR_CONFIGURATION_FILE_DIRTY")
    /\ cOp.result = <<"rejected", Err("ERROR_CONFIGURATION_FILE_DIRTY")>>
    /\ cOp.updates = <<>> /\ ~cOp.reloaded

\* C5: the error validate returns is that of the first failing check in the order
\* (1) unknown key of a non-standalone edit, (2) standalone edit to User,
\* (3) Workspace target without a workspace, (4) dirty target file, (5) parse
\* errors in the existing file unless a standalone file is replaced as a whole;
\* and no error when no check fails.
C5_ValidationOrder ==
    [][cOp'.op = "writeConfiguration" =>
        LET operation  == cOp'.operation
            target     == cOp'.target
            standalone == operation.isWorkspaceStandalone
            file       == configFiles[operation.target]
            expected ==
                IF ~standalone /\ operation.key \notin ValidKeys THEN Err("ERROR_UNKNOWN_KEY")
                ELSE IF standalone /\ target = "USER" THEN Err("ERROR_INVALID_TARGET")
                ELSE IF target = "WORKSPACE" /\ ~workspaceOpen
                THEN Err("ERROR_NO_WORKSPACE_OPENED")
                ELSE IF file.dirty THEN Err("ERROR_CONFIGURATION_FILE_DIRTY")
                ELSE IF file.exists /\ file.content = "broken"
                        /\ ~(standalone /\ operation.key = <<>>)
                THEN Err("ERROR_INVALID_CONFIGURATION")
                ELSE Undefined
        IN  /\ cOp'.validation.error = expected
            /\ (cOp'.key = <<"x",".","y">> /\ target = "USER")
                  => cOp'.validation.error = Err("ERROR_UNKNOWN_KEY")]_vars

\* C5 witness: an unknown key written to User scope was refused with UNKNOWN_KEY
\* although the user settings file is dirty and has parse errors.
C5_Witness ==
    /\ cOp.op = "writeConfiguration" /\ cOp.target = "USER"
    /\ cOp.key = <<"x",".","y">>
    /\ cOp.validation.error = Err("ERROR_UNKNOWN_KEY")
    /\ configFiles[UserSettings].dirty /\ configFiles[UserSettings].content = "broken"

SpecUtility == InitUtility /\ [][NextUtility]_vars

\* The timer of waitForExit always fires.
SpecUtilityFair == SpecUtility /\ WF_vars(WaitTimeout /\ UtilityOnly)

\* C2: the child process is forked at most once; a start() issued while a process
\* is held forks nothing, exchanges no ports, keeps the stored process and
\* configuration, and only logs an error.
C2_StartForksOnce ==
    /\ [](forkCount <= 1)
    /\ [][(uOp'.op = "start" /\ process # 0)
            => /\ process' = process
               /\ configuration' = configuration
               /\ forkCount' = forkCount
               /\ childState' = childState
               /\ ~uOp'.forked /\ ~uOp'.ports /\ ~uOp'.threw
               /\ uOp'.logged = <<"Error">>]_vars

\* C2 witness: a second start() was refused while the first process is held.
C2_Witness ==
    /\ uOp.op = "start" /\ uOp.logged = <<"Error">> /\ ~uOp.forked
    /\ process = 1 /\ forkCount = 1 /\ childState \in {"forked", "spawned"}

\* C3: waitForExit returns without kill when the process already exited; a wait
\* in progress always eventually returns; and it calls kill() exactly when it
\* returns because the timeout elapsed with no exit event received.
C3_WaitForExit ==
    /\ [](wait.pc = "returned" => (wait.killed <=> wait.by = "timeout"))
    /\ [][(uOp'.op = "waitForExit" /\ didExit)
            => (wait'.pc = "returned" /\ ~wait'.killed /\ ~uOp'.killed)]_vars
    /\ [][(wait.pc = "waiting" /\ wait'.pc = "returned")
            => (wait'.killed <=> (uOp'.op = "waitTimeout" /\ ~didExit'))]_vars
    /\ ((wait.pc = "waiting") ~> (wait.pc = "returned"))

\* C3 witness: a wait returned on the timeout and killed the process, which has
\* not exited.
C3_Witness ==
    /\ wait.pc = "returned" /\ wait.by = "timeout" /\ wait.killed
    /\ uOp.op = "waitTimeout" /\ uOp.killed /\ ~didExit

NextChat ==
    \/ \E affects \in BOOLEAN, value \in BOOLEAN :
          ChangeConfiguration(affects, value) /\ ChatOnly
    \/ \E sel \in Selections : ChangeCursorSelection(sel) /\ ChatOnly
    \/ \E onGlyph \in BOOLEAN : MouseDown(onGlyph) /\ ChatOnly
    \/ DisposeContribution /\ ChatOnly

InitChat ==
    ChatInit /\ ScmIdle /\ PureIdle /\ NlsIdle /\ WorkerIdle /\ DiffIdle /\ HtmlIdle /\ EmmetIdle /\ InputIdle /\ LastIdle /\ WatcherInit /\ UtilityIdle /\ ConfigIdle /\ FileIdle

SpecChat == InitChat /\ [][NextChat]_vars

NextScm ==
    \/ \E item \in HistoryItems : AppendHistoryItems(<<item>>) /\ ScmOnly
    \/ \E item \in HistoryItems, next \in HistoryItems :
          /\ item.parentIds # <<>> /\ next.id \in {item.parentIds[k] : k \in DOMAIN item.parentIds}
          /\ AppendHistoryItems(<<item, next>>) /\ ScmOnly
    \/ ClearHistoryItems /\ ScmOnly
    \/ \E k \in 1..2 : RenderHistoryItemGraph(k) /\ ScmOnly

InitScm ==
    ScmIdle /\ ChatIdle /\ PureIdle /\ NlsIdle /\ WorkerIdle /\ DiffIdle /\ HtmlIdle /\ EmmetIdle /\ InputIdle /\ LastIdle /\ WatcherInit /\ UtilityIdle /\ ConfigIdle /\ FileIdle

SpecScm == InitScm /\ [][NextScm]_vars

BaseIdle == WatcherInit /\ UtilityIdle /\ ConfigIdle /\ FileIdle

IdleButPure == ChatIdle /\ ScmIdle /\ NlsIdle /\ WorkerIdle /\ DiffIdle /\ HtmlIdle /\ EmmetIdle /\ InputIdle /\ LastIdle /\ BaseIdle

NextDiff ==
    \/ ResolveDiffSource /\ DiffOnly
    \/ ContinueResolveDiffSource /\ DiffOnly
    \/ (\E r \in RepositoryUris : ChangeRepositories(r)) /\ DiffOnly
    \/ (\E g \in GroupIds : ChangeResourceGroups(g)) /\ DiffOnly
    \/ (\E a \in Badges : ChangeActivity(a)) /\ DiffOnly

InitDiff ==
    /\ diffEnv \in [repositories : SUBSET RepositoryUris, groups : SUBSET GroupIds,
                     activities : SUBSET Badges]
    /\ diffResolve = [pc |-> "idle", observed |-> <<>>]
    /\ ChatIdle /\ ScmIdle /\ PureIdle /\ NlsIdle /\ WorkerIdle /\ HtmlIdle /\ EmmetIdle /\ InputIdle /\ LastIdle /\ BaseIdle

NextEmmet ==
    \/ ActivateEmmet /\ EmmetOnly
    \/ (\E included \in SUBSET EmmetLanguages : ChangeEmmetConfiguration(included)) /\ EmmetOnly

InitEmmet ==
    /\ emmet \in {[NoEmmet EXCEPT !.scoping = b, !.includeLanguages = i] :
                    b \in {"block", "function"}, i \in SUBSET EmmetLanguages}
    /\ eOp = [op |-> "none"]
    /\ ChatIdle /\ ScmIdle /\ PureIdle /\ NlsIdle /\ WorkerIdle /\ DiffIdle /\ HtmlIdle
    /\ InputIdle /\ LastIdle /\ BaseIdle

NextInput ==
    \/ (\E kind \in {"empty", "new", "oldest", "newest"} : TypeInput(kind)) /\ InputOnly
    \/ (\E withQuery \in BOOLEAN : AcceptInput(withQuery)) /\ InputOnly
    \/ (\E previous \in BOOLEAN : NavigateHistory(previous)) /\ InputOnly

InitInput ==
    /\ InputInit
    /\ ChatIdle /\ ScmIdle /\ PureIdle /\ NlsIdle /\ WorkerIdle /\ DiffIdle /\ HtmlIdle /\ EmmetIdle
    /\ LastIdle /\ BaseIdle

SpecInput == InitInput /\ [][NextInput]_vars

SpecEmmet == InitEmmet /\ [][NextEmmet]_vars

NextTree ==
    \/ (\E resolveTo \in SUBSET ResolveToPaths, single \in BOOLEAN :
            ResolveFile(resolveTo, single)) /\ TreeOnly
    \/ ToFileStat /\ TreeOnly

InitTree == TreeInit /\ PrefsIdle /\ ChatIdle /\ ScmIdle /\ PureIdle /\ NlsIdle
    /\ WorkerIdle /\ DiffIdle /\ HtmlIdle /\ EmmetIdle /\ InputIdle /\ BaseIdle

SpecTree == InitTree /\ [][NextTree]_vars

\* A toFileStat call that can run does run.
SpecTreeFair == SpecTree /\ WF_vars(ToFileStat /\ TreeOnly)

NextPrefs ==
    \/ (\E model \in PrefsModels \cup {"none"} : ChangeEditorModel(model)) /\ PrefsOnly
    \/ (\E i \in DOMAIN prefs.resolutions, editorModel \in EditorModels :
            ResolvedEditorModel(i, editorModel)) /\ PrefsOnly
    \/ DisposePreferencesContribution /\ PrefsOnly

InitPrefs == PrefsIdle /\ TreeIdle /\ ChatIdle /\ ScmIdle /\ PureIdle /\ NlsIdle
    /\ WorkerIdle /\ DiffIdle /\ HtmlIdle /\ EmmetIdle /\ InputIdle /\ BaseIdle

SpecPrefs == InitPrefs /\ [][NextPrefs]_vars

NextHtml ==
    \/ (\E uri \in DocumentUris : ChangeDocument(uri)) /\ HtmlOnly
    \/ (\E uri \in DocumentUris : CloseDocument(uri)) /\ HtmlOnly
    \/ (\E uri \in DocumentUris : GetLanguageService(uri)) /\ HtmlOnly
    \/ (\E id \in DOMAIN htmlProject.services : LanguageServiceCreated(id)) /\ HtmlOnly
    \/ (\E scripts \in ImportedScripts : RunJob(scripts)) /\ HtmlOnly
    \/ Reload /\ HtmlOnly

InitHtml == ChatIdle /\ ScmIdle /\ LaterIdle /\ BaseIdle

SpecHtml == InitHtml /\ [][NextHtml]_vars

SpecDiff == InitDiff /\ [][NextDiff]_vars

\* The continuation of a settled await runs: the promise jobs are always served.
SpecDiffFair == SpecDiff /\ WF_vars(ContinueResolveDiffSource /\ DiffOnly)

NextWorker ==
    \/ CreateWorker /\ WorkerOnly
    \/ (\E w \in DOMAIN workers, data \in WorkerMessages : WorkerMessage(w, data)) /\ WorkerOnly
    \/ (\E w \in DOMAIN workers : WorkerError(w)) /\ WorkerOnly

InitWorker == ChatIdle /\ ScmIdle /\ LaterIdle /\ BaseIdle

SpecWorker == InitWorker /\ [][NextWorker]_vars

NextNls ==
    \/ (\E context \in NlsContexts, packs \in LanguagePacks, fail \in NlsFailures :
           /\ fail # "none" => packs = "ok"
           /\ ResolveNLSConfiguration(context, packs, fail)) /\ NlsOnly
    \/ WriteCorruptMarker /\ NlsOnly

InitNls == NlsInit /\ ChatIdle /\ ScmIdle /\ LaterIdle /\ BaseIdle

SpecNls == InitNls /\ [][NextNls]_vars

NextLocale == ResolveLanguagePackLocale /\ PureOnly

InitLocale == LocaleInit /\ IdleButPure

SpecLocale == InitLocale /\ [][NextLocale]_vars

NextFormat == Format /\ PureOnly

InitFormat == FormatInit /\ IdleButPure

SpecFormat == InitFormat /\ [][NextFormat]_vars

SpecWatcher == InitWatcher /\ [][NextWatcher]_vars

MoveOrCopyDone == fOp.op = "none" /\ fOp'.op \in {"moveFile", "copyFile"}

\* A provider call that changes the disk, or any call of the legacy service.
IsMutation(call) ==
    \/ call[1] = "legacy"
    \/ call[1] = "provider" /\ call[2] \in {"delete", "mkdir", "rename", "copy", "writeFile"}

\* A call that carries out the rename or copy itself.
IsTransfer(call) ==
    \/ call[1] = "legacy" /\ call[2] = "copyFile"
    \/ call[1] = "provider" /\ call[2] \in {"rename", "copy", "writeFile"}

\* Source and target differ only in letter case, on a provider of the scheme
\* that is not path-case-sensitive.
PureCaseRename(source, target) ==
    /\ source # target
    /\ source.scheme = target.scheme
    /\ provider[source.scheme].registered
    /\ ~isPathCaseSensitive(source.scheme)
    /\ isEqual(source, target, TRUE)

\* C6: moveFile/copyFile with a source that is equal to or an ancestor of the
\* target is rejected before any provider call is made, unless source and
\* target differ only in letter case on a provider that is not
\* path-case-sensitive.
C6_SourceAboveTargetRejected ==
    [][(/\ MoveOrCopyDone
        /\ isEqualOrParent(fOp'.target, fOp'.source, ~isPathCaseSensitive(fOp'.source.scheme))
        /\ ~PureCaseRename(fOp'.source, fOp'.target))
       => (fOp'.error # "" /\ fOp'.calls = <<>>)]_vars

\* C7: moveFile/copyFile with overwrite, where the existing target is the
\* source or an ancestor of it, is rejected and at that point nothing was
\* deleted, created, renamed or copied.
C7_TargetAboveSourceRejected ==
    [][(/\ MoveOrCopyDone
        /\ Truthy(fOp'.overwrite)
        /\ provider[fOp'.target.scheme].registered
        /\ DiskExists(disk, fOp'.target)
        /\ isEqualOrParent(fOp'.source, fOp'.target, ~isPathCaseSensitive(fOp'.source.scheme))
        /\ ~PureCaseRename(fOp'.source, fOp'.target))
       => (/\ fOp'.error # ""
           /\ \A i \in DOMAIN fOp'.calls : ~IsMutation(fOp'.calls[i])
           /\ disk' = disk)]_vars

\* C8 as stated: moveFile/copyFile onto an existing target, without overwrite
\* and not a pure case-rename, fails with FILE_MOVE_CONFLICT, makes no delete,
\* mkdir, rename, copy or write call and fires no after-operation event.
C8_ConflictAsStated ==
    [][(/\ MoveOrCopyDone
        /\ ~Truthy(fOp'.overwrite)
        /\ provider[fOp'.target.scheme].registered
        /\ DiskExists(disk, fOp'.target)
        /\ ~PureCaseRename(fOp'.source, fOp'.target))
       => (/\ fOp'.error = "FILE_MOVE_CONFLICT"
           /\ \A i \in DOMAIN fOp'.calls : ~IsMutation(fOp'.calls[i])
           /\ fOp'.events = <<>>)]_vars

\* C8, amended: moveFile/copyFile within one scheme whose provider is not
\* Readonly, with a source that is neither equal to the target (as the
\* provider compares paths) nor an ancestor of it, onto an existing target and
\* without overwrite, fails with FILE_MOVE_CONFLICT, makes no delete, mkdir,
\* rename, copy or write call, fires no after-operation event and leaves the
\* disk as it was.
C8_ConflictWithoutOverwrite ==
    [][(/\ MoveOrCopyDone
        /\ ~Truthy(fOp'.overwrite)
        /\ fOp'.source.scheme = fOp'.target.scheme
        /\ provider[fOp'.target.scheme].registered
        /\ "Readonly" \notin Capabilities(fOp'.target.scheme)
        /\ ~isEqualOrParent(fOp'.target, fOp'.source, ~isPathCaseSensitive(fOp'.source.scheme))
        /\ DiskExists(disk, fOp'.target))
       => (/\ fOp'.error = "FILE_MOVE_CONFLICT"
           /\ \A i \in DOMAIN fOp'.calls : ~IsMutation(fOp'.calls[i])
           /\ fOp'.events = <<>>
           /\ disk' = disk)]_vars

\* A move or copy onto an existing sibling was refused with FILE_MOVE_CONFLICT
\* after the target had been looked up.
C8_Witness ==
    /\ fOp.op \in {"moveFile", "copyFile"}
    /\ fOp.error = "FILE_MOVE_CONFLICT"
    /\ fOp.overwrite \in {"false", "undefined"}
    /\ fOp.calls # <<>>
    /\ fOp.calls[1] = <<"provider", "stat", fOp.target>>
    /\ DiskExists(disk, fOp.source)

\* C9: moveFile/copyFile with overwrite true, within one scheme or across
\* schemes: the overwrite request reaches every rename/copy issued, and an
\* existing target was deleted recursively before it, unless source and target
\* are the same path up to letter case on a provider that is not
\* path-case-sensitive.
C9_OverwriteReachesTransfer ==
    [][(MoveOrCopyDone /\ fOp'.overwrite = "true")
       => \A i \in DOMAIN fOp'.calls :
             IsTransfer(fOp'.calls[i]) =>
                /\ fOp'.calls[i][Len(fOp'.calls[i])] = "true"
                /\ (/\ provider[fOp'.target.scheme].registered
                    /\ DiskExists(disk, fOp'.target)
                    /\ ~isCaseChange(fOp'.source, fOp'.target))
                   => \E j \in 1..(i - 1) :
                         fOp'.calls[j] = <<"provider", "delete", fOp'.target, TRUE>>]_vars

\* C10: a mutating call on a resource whose provider declares Readonly is
\* rejected with FILE_PERMISSION_DENIED and neither a provider nor the legacy
\* service is asked to mutate.
C10_ReadonlyRejectsMutations ==
    [][(/\ fOp.op = "none"
        /\ fOp'.op \in {"createFile", "createFolder", "moveFile", "copyFile", "del"}
        /\ provider[fOp'.source.scheme].registered
        /\ "Readonly" \in Capabilities(fOp'.source.scheme))
       => (/\ fOp'.error = "FILE_PERMISSION_DENIED"
           /\ \A i \in DOMAIN fOp'.calls : ~IsMutation(fOp'.calls[i]))]_vars

(***************************************************************************)
(*                  FileService2: recursive directory creation             *)
(***************************************************************************)
IsMkdir(call) == call[1] = "provider" /\ call[2] = "mkdir"

IsWrite(call) ==
    \/ call[1] = "provider" /\ call[2] = "writeFile"
    \/ call[1] = "legacy" /\ call[2] = "createFile"

\* The first n segments of a resource.
Ancestor(resource, n) == Uri(resource.scheme, SubSeq(resource.path, 1, n))

\* How many leading segments of directory exist on the disk.
ExistingDepth(d, directory) ==
    CHOOSE n \in 0..Len(directory.path) :
        /\ DiskExists(d, Ancestor(directory, n))
        /\ \A m \in (n + 1)..Len(directory.path) : ~DiskExists(d, Ancestor(directory, m))

\* The mkdir calls that create the missing segments of directory, parent first.
MissingSegments(d, directory) ==
    [i \in 1..(Len(directory.path) - ExistingDepth(d, directory)) |->
        <<"provider", "mkdir", Ancestor(directory, ExistingDepth(d, directory) + i)>>]

\* An existing non-directory is on the way to directory.
BlockedByFile(d, directory) ==
    DiskType(d, Ancestor(directory, ExistingDepth(d, directory))) # "dir"

\* C11: creating a file or folder issues exactly one provider mkdir call per
\* missing segment of the ancestor chain, parent before child and all before
\* the file write, none for a segment that exists as a directory, and fails
\* without any mkdir call when an existing non-directory blocks the path.
C11_MkdirPerMissingSegment ==
    [][(/\ fOp.op = "none"
        /\ fOp'.op \in {"createFile", "createFolder"}
        /\ provider[fOp'.source.scheme].registered
        /\ "Readonly" \notin Capabilities(fOp'.source.scheme))
       => LET directory == IF fOp'.op = "createFolder" THEN fOp'.source
                           ELSE dirname(fOp'.source)
              calls     == fOp'.calls
          IN  IF BlockedByFile(disk, directory)
              THEN fOp'.error # "" /\ SelectSeq(calls, IsMkdir) = <<>>
              ELSE /\ SelectSeq(calls, IsMkdir) = MissingSegments(disk, directory)
                   /\ \A i, j \in DOMAIN calls :
                         IsMkdir(calls[i]) /\ IsWrite(calls[j]) => i < j]_vars

(***************************************************************************)
(*                     FileService2: provider registry                     *)
(***************************************************************************)
\* The registrations of a scheme that were not disposed.
LiveRegistrations(scheme) ==
    {i \in DOMAIN registrations :
        registrations[i].scheme = scheme /\ ~registrations[i].disposed}

\* C12: at most one provider is registered per scheme; registerProvider for a
\* registered scheme throws and leaves the registry, the legacy service's
\* registrations and the registration events unchanged; disposing a
\* registration removes the scheme, and the scheme can be registered again.
C12_ProviderRegistry ==
    /\ [](\A scheme \in Schemes :
            /\ Cardinality(LiveRegistrations(scheme)) <= 1
            /\ provider[scheme].registered <=> LiveRegistrations(scheme) # {})
    /\ [][(rOp'.op = "registerProvider" /\ rOp' # rOp /\ provider[rOp'.scheme].registered)
          => (/\ rOp'.threw
              /\ rOp'.events = <<>>
              /\ rOp'.forwarded = {}
              /\ UNCHANGED <<provider, legacyProvider, registrations>>)]_vars
    /\ [][(rOp'.op = "dispose" /\ registrations' # registrations)
          => ~provider'[rOp'.scheme].registered]_vars
    /\ [][(/\ rOp'.op = "registerProvider"
           /\ rOp' # rOp \/ registrations' # registrations
           /\ ~provider[rOp'.scheme].registered)
          => (~rOp'.threw /\ provider'[rOp'.scheme].registered)]_vars

(***************************************************************************)
(*                 FileService2: del and after-operation events            *)
(***************************************************************************)
IsDelete(call) == call[1] = "provider" /\ call[2] = "delete"

\* The children of a directory on the disk.
Children(d, resource) ==
    {e \in EntriesUnder(d, resource) : Len(e.path) = Len(resource.path) + 1}

OperationOf(op) ==
    CASE op = "createFolder" -> "CREATE"
      [] op = "moveFile" -> "MOVE"
      [] op = "copyFile" -> "COPY"
      [] OTHER -> "DELETE"

\* A createFolder, moveFile, copyFile or del call served by one provider, not
\* by the legacy service.
ThroughProvider(call) ==
    /\ call.op \in {"createFolder", "moveFile", "copyFile", "del"}
    /\ ~call.useTrash
    /\ call.target # NoUri => call.target.scheme = call.source.scheme

\* The last event of the call has the type of the call, names its resource,
\* carries the stat of the resulting resource as the disk d holds it, and was
\* fired when every call to the provider had been made.
FiredWhenDone(call, d) ==
    /\ call.events # <<>>
    /\ LET last == call.events[Len(call.events)]
           result == IF call.target = NoUri THEN call.source ELSE call.target
       IN /\ last.event.operation = OperationOf(call.op)
          /\ last.event.resource = call.source
          /\ last.after = Len(call.calls)
          /\ call.op # "del" =>
                /\ DiskExists(d, result)
                /\ last.event.target = FileStat(result, DiskType(d, result) = "dir")
          /\ \A i \in 1..(Len(call.events) - 1) :
                call.events[i].event.operation # OperationOf(call.op) \/ call.op = "del"
          /\ call.op = "del" => Len(call.events) = 1

Polled == {monitors[i].request : i \in {j \in DOMAIN monitors : monitors[j].watching}}

\* C15: a request enters the suspended set, and gets a polling watch, only in
\* the handler of a watch-failure event for it and only if its correlationId
\* is a number; a failure event for a request without a numeric correlationId
\* changes neither the suspended set nor the set passed to doWatch, calls
\* doWatch not at all and installs no polling watch.
C15_SuspendOnlyCorrelatedFailure ==
    /\ [][\A r \in Requests :
            (\/ suspendedWatchRequests[r] = 0 /\ suspendedWatchRequests'[r] # 0
             \/ Len(monitors') > Len(monitors) /\ monitors'[Len(monitors')].request = r)
            => /\ wOp'.op = "fail"
               /\ wOp'.request = r
               /\ TypeOf(r.correlationId) = "number"
               /\ suspendedWatchRequests'[r] = Len(monitors')]_vars
    /\ [][(wOp'.op = "fail" /\ TypeOf(wOp'.request.correlationId) # "number")
            => /\ UNCHANGED <<suspendedWatchRequests, monitors, lastDoWatch>>
               /\ ~wOp'.doWatch]_vars

\* A failure event for the request without correlationId has been handled while
\* that request is natively watched and another request is suspended and polled.
C15_Witness ==
    /\ wOp.op = "fail"
    /\ TypeOf(wOp.request.correlationId) # "number"
    /\ wOp.request \in lastDoWatch
    /\ suspendedWatchRequests[wOp.request] = 0
    /\ Polled # {}

C17_RefusedStartIsSilent ==
    [][(/\ uOp'.op = "start"
        /\ uOp' # uOp
        /\ \/ ~canUseUtilityProcess
           \/ process # 0
           \/ windowState[uOp'.window] # "ok")
       => /\ ~uOp'.threw
          /\ ~uOp'.forked
          /\ ~uOp'.ports
          /\ uOp'.emitted = <<>>
          /\ UNCHANGED <<process, processPid, configuration, didExit,
                         forkCount, childState>>]_vars

(***************************************************************************)
(*           InlineChatDecorationsContribution: gutter decoration          *)
(***************************************************************************)
\* C18: while the setting is disabled the editor holds no gutter decoration
\* and a selection change or a click on the glyph has no effect; while it is
\* enabled, after any number of disable/enable cycles, exactly one selection
\* listener and one click listener are attached and a decoration exists for
\* the current selection.
C18_DisabledMeansInert ==
    /\ [](~isDisposed /\ ~showGutterIcon => decorations = {})
    /\ [][(~isDisposed /\ ~showGutterIcon /\ iOp'.op \in {"selection", "click"})
            => /\ decorations' = decorations
               /\ iOp'.changes = <<>>
               /\ iOp'.runs = 0]_vars
    /\ [](~isDisposed /\ showGutterIcon =>
            /\ cursorChangeListeners = 1
            /\ clickChangeListeners = 1
            /\ selection # 0 => \E d \in decorations : d.range = selection)

\* C19: while the setting is enabled and the editor has a selection, the editor
\* holds exactly one gutter decoration, the one this.gutterDecorationID names,
\* at the latest selection; every decoration change that adds a decoration
\* adds one and removes every decoration held before it.
C19_OneDecorationAtSelection ==
    /\ [](~isDisposed /\ showGutterIcon /\ selection # 0 =>
            decorations = {[id |-> gutterDecorationID, range |-> selection]})
    /\ [][\A k \in DOMAIN iOp'.changes :
            iOp'.changes[k].added # {} =>
                /\ Cardinality(iOp'.changes[k].added) = 1
                /\ iOp'.changes[k].removed = iOp'.changes[k].before]_vars

\* A selection change has just replaced the decoration of the previous
\* selection while the setting is enabled.
C19_Witness ==
    /\ ~isDisposed /\ showGutterIcon
    /\ iOp.op = "selection"
    /\ Len(iOp.changes) >= 1
    /\ iOp.changes[1].removed # {}
    /\ iOp.changes[1].added = {gutterDecorationID}
    /\ decorations = {[id |-> gutterDecorationID, range |-> selection]}

(***************************************************************************)
(*            SCMRepositoryGraphController: colour allocation              *)
(***************************************************************************)
\* C20: between two resets the colour indices allocated are, in order,
\* 0,1,2,3,4,5,1,2,3,4,5,1,...: index 0 is allocated only first, every index
\* lies within the palette, and clearHistoryItems restarts the sequence at 0.
C20_ColourSequence ==
    /\ [](\A i \in DOMAIN allocated :
            /\ allocated[i] = (IF i <= 6 THEN i - 1 ELSE 1 + ((i - 7) % 5))
            /\ allocated[i] \in 0..5
            /\ allocated[i] + 1 \in DOMAIN graphColors
            /\ allocated[i] = 0 => i = 1)
    /\ [](colorIndex = (IF allocated = <<>> THEN -1 ELSE allocated[Len(allocated)]))
    /\ [][sOp'.op = "clearHistoryItems" => colorIndex' = -1 /\ allocated' = <<>>]_vars

\* The palette has wrapped: the seventh colour allocated since the reset is 1.
C20_Witness ==
    /\ Len(allocated) >= 7
    /\ allocated[6] = 5
    /\ allocated[7] = 1
    /\ sOp.op = "appendHistoryItems"

(***************************************************************************)
(*          SCMRepositoryGraphController: lanes of a merge commit          *)
(***************************************************************************)
\* The first parent took the slot (0-based) of the commit's first input lane
\* with that lane's colour, one colour was allocated, and the second parent
\* has it on the lane appended last.
MergeReusesOwnLane(vm) ==
    LET slot == findIndex(vm.inputSwimlanes, vm.historyItem.id)
        out  == vm.outputSwimlanes
    IN  /\ slot # -1
        /\ Len(vm.colors) = 1
        /\ Len(out) > slot + 1
        /\ out[slot + 1] = [id |-> vm.historyItem.parentIds[1],
                            color |-> vm.inputSwimlanes[slot + 1].color]
        /\ out[Len(out)] = [id |-> vm.historyItem.parentIds[2], color |-> vm.colors[1]]

\* C21 as stated: every appended commit with exactly two parents allocates
\* exactly one colour, used for the second parent's lane appended last, and
\* its first parent occupies the commit's own lane slot with that lane's colour.
C21_MergeAllocatesOne ==
    [][sOp'.op = "appendHistoryItems" =>
        \A k \in DOMAIN sOp'.added :
            Len(sOp'.added[k].historyItem.parentIds) = 2
                => MergeReusesOwnLane(sOp'.added[k])]_vars

\* C21: every appended commit with exactly two parents that has a lane among
\* its input swimlanes allocates exactly one colour, used for the second
\* parent's lane appended last, and its first parent occupies the slot of the
\* commit's first input lane with that lane's colour; a commit with two
\* parents and no input lane allocates two colours, one per parent, on two
\* lanes appended last.
C21_MergeOnOwnLane ==
    [][sOp'.op = "appendHistoryItems" =>
        \A k \in DOMAIN sOp'.added :
            LET vm == sOp'.added[k] IN
            Len(vm.historyItem.parentIds) = 2 =>
                IF findIndex(vm.inputSwimlanes, vm.historyItem.id) # -1
                THEN MergeReusesOwnLane(vm)
                ELSE /\ Len(vm.colors) = 2
                     /\ vm.outputSwimlanes = vm.inputSwimlanes \o
                            <<[id |-> vm.historyItem.parentIds[1], color |-> vm.colors[1]],
                              [id |-> vm.historyItem.parentIds[2], color |-> vm.colors[2]]>>]_vars

\* A merge commit has been appended on its own lane.
C21_Witness ==
    /\ sOp.op = "appendHistoryItems"
    /\ \E k \in DOMAIN sOp.added :
          /\ Len(sOp.added[k].historyItem.parentIds) = 2
          /\ findIndex(sOp.added[k].inputSwimlanes, sOp.added[k].historyItem.id) # -1
          /\ Len(sOp.added[k].colors) = 1

\* C22: the number of circles drawn for a commit is one for exactly one
\* parent and two for two or more parents, and two circles are drawn for no
\* commit that has at most one parent.
C22_CirclesByParentCount ==
    [](sOp.op = "render" /\ ~sOp.rendered.threw =>
        LET parents == Len(sOp.added[sOp.rendered.index].historyItem.parentIds)
        IN  /\ parents = 1 => sOp.rendered.circles = 1
            /\ parents >= 2 => sOp.rendered.circles = 2
            /\ sOp.rendered.circles = 2 => parents > 1)

(***************************************************************************)
(*                    nls: locale resolution and _format                   *)
(***************************************************************************)
\* The prefixes of a locale cut at a dash (the part before a dash), and the
\* locale itself.
DashPrefixes(locale) ==
    {locale} \cup {SubSeq(locale, 1, k - 1) : k \in {j \in DOMAIN locale : locale[j] = "-"}}

RECURSIVE DecimalValue(_)
DecimalValue(digits) ==
    IF digits = <<>> THEN 0
    ELSE 10 * DecimalValue(SubSeq(digits, 1, Len(digits) - 1))
         + (IF digits[Len(digits)] = "1" THEN 1 ELSE 0)

\* The message with every placeholder {n} replaced by the textual form of the
\* n-th argument (0-based), from position i on.
RECURSIVE Formatted(_, _, _)
Formatted(message, i, args) ==
    IF i > Len(message) THEN <<>>
    ELSE LET n == Digits(message, i + 1)
         IN  IF message[i] = "{" /\ n >= 1 /\ i + n + 1 <= Len(message)
                /\ message[i + n + 1] = "}"
             THEN LET nth == DecimalValue(SubSeq(message, i + 1, i + n))
                  IN  String(IF nth < Len(args) THEN args[nth + 1] ELSE Undefined)
                      \o Formatted(message, i + n + 2, args)
             ELSE <<message[i]>> \o Formatted(message, i + 1, args)

\* C24: with at least one argument every placeholder {n} is replaced by the
\* textual form of the n-th argument; with no argument the message is
\* returned unchanged (pseudo translation being off).
C24_FormatReplacesNth ==
    (pureCall.fn = "_format" /\ pureResult[1] = "returned" /\ ~pureCall.isPseudo =>
        pureResult[2] = (IF Len(pureCall.args) = 0 THEN pureCall.message
                         ELSE Formatted(pureCall.message, 1, pureCall.args)))

\* C23: the promise of resolveNLSConfiguration is never rejected: whatever the
\* context, the language pack table and the failing step, it resolves to a
\* configuration of a language pack or to the default configuration with
\* resolvedLocale 'en' and no languagePack; after a failed step it is the
\* default one.
C23_NeverRejects ==
    nlsOp.op = "resolve" =>
        /\ nlsOp.settled[1] = "resolved"
        /\ \/ nlsOp.settled[2].languagePack
           \/ nlsOp.settled[2] = [resolvedLocale |-> "en", languagePack |-> FALSE]

\* A rebuild whose write of the messages file failed resolved to the default
\* configuration.
C23_Witness ==
    /\ nlsOp.op = "resolve"
    /\ nlsOp.packs = "ok"
    /\ nlsOp.fail = "writeMessages"
    /\ nlsCache.messagesFile = "partial"
    /\ nlsOp.settled = <<"resolved", [resolvedLocale |-> "en", languagePack |-> FALSE]>>

(***************************************************************************)
(*                    SharedProcessWorkerService                           *)
(***************************************************************************)
\* C26: the window port is relayed once, at creation; the worker port is
\* posted only after the worker's request, with the response message, and no
\* port is transferred more than once whatever the worker sends; an
\* unexpected message only adds an error log.
C26_PortHandoff ==
    /\ \A w \in DOMAIN workers :
          /\ workers[w].relays = 1
          /\ workers[w].portsPosted <= 1
          /\ workers[w].portsPosted = workers[w].responses
          /\ workers[w].portsPosted = 1 => workers[w].requests >= 1
          /\ workers[w].requests = 0 => workers[w].workerPort = "held"
    /\ kOp.op = "createWorker" =>
          /\ workers[kOp.worker].relays = 1
          /\ workers[kOp.worker].portsPosted = 0
    /\ kOp.op = "message" /\ kOp.data = "other" =>
          workers[kOp.worker] = [kOp.before EXCEPT !.events = @ + 1, !.errorLogs = @ + 1]
    /\ kOp.op = "message" /\ kOp.data # "other" /\ kOp.before.requests = 0 =>
          workers[kOp.worker] = [kOp.before EXCEPT !.events = @ + 1, !.requests = 1,
                                    !.responses = 1, !.portsPosted = 1,
                                    !.workerPort = "transferred"]

\* A worker sent something unexpected, then the request, then the request
\* again: one response with the port, one error log.
C26_Witness ==
    \E w \in DOMAIN workers :
        /\ workers[w].requests = 2
        /\ workers[w].errorLogs = 1
        /\ workers[w].portsPosted = 1
        /\ kOp.op = "message" /\ kOp.worker = w /\ kOp.data # "other"
        /\ kOp.before.errorLogs = 1

(***************************************************************************)
(*                     ScmMultiDiffSourceResolver                          *)
(***************************************************************************)
AllObserved == <<"awaitRepository", "awaitGroup", "awaitNoBadge">>

\* C27: resolveDiffSource observes the named repository, then the named
\* group, then the view container without progress badge, in this order; it
\* is not completed before all three were observed, it completes once they
\* were, and it stays incomplete while one of them has not occurred.
C27_ResolvesInOrder ==
    /\ [](\E n \in 0..3 : diffResolve.observed = SubSeq(AllObserved, 1, n))
    /\ [](diffResolve.pc = "completed" => diffResolve.observed = AllObserved)
    /\ [](diffResolve.pc \in {"awaitGroup", "gotGroup", "awaitNoBadge", "gotNoBadge"}
            => diffResolve.observed # <<>> /\ diffResolve.observed[1] = "awaitRepository")
    /\ (diffResolve.observed = AllObserved ~> diffResolve.pc = "completed")
    /\ [][diffResolve.observed' # diffResolve.observed =>
            AwaitedValue(diffResolve'.observed[Len(diffResolve'.observed)], diffEnv')]_vars

\* The call completed; the repository is gone and a progress badge is shown
\* again by then.
C27_Witness ==
    /\ diffResolve.pc = "completed"
    /\ diffEnv.repositories = {"otherUri"}
    /\ "ProgressBadge" \in diffEnv.activities

(***************************************************************************)
(*                          createHtmlProject                              *)
(***************************************************************************)
\* C28: a getLanguageService(uri) call computes the root files exactly when
\* the document is synced and its uri::version key differs from the key of
\* the last computation, and leaves them untouched otherwise; a non-empty
\* list starts with the helper library followed by the document of the last
\* computation.
C28_RootFilesByVersion ==
    /\ hOp.op = "getLanguageService" =>
          LET uri  == hOp.uri
              key  == ProjectVersionOf(uri, htmlDocuments[uri])
              was  == hOp.before
          IN  IF htmlDocuments[uri] # 0 /\ key # was.projectVersion
              THEN /\ htmlProject.projectVersion = key
                   /\ Len(htmlProject.currentRootFiles) >= 2
                   /\ htmlProject.currentRootFiles[2] = asFileName(uri)
              ELSE /\ htmlProject.projectVersion = was.projectVersion
                   /\ htmlProject.currentRootFiles = was.currentRootFiles
    /\ htmlProject.currentRootFiles # <<>> =>
          /\ Len(htmlProject.currentRootFiles) >= 2
          /\ htmlProject.currentRootFiles[1] = JQUERY_PATH
          /\ htmlProject.projectVersion # <<>>
          /\ htmlProject.currentRootFiles[2] = asFileName(htmlProject.projectVersion[1])
    /\ htmlProject.currentRootFiles = <<>> <=> htmlProject.projectVersion = <<>>

\* A second request for the same version of the document left the list, with
\* its imported script, as it was.
C28_Witness ==
    /\ hOp.op = "getLanguageService"
    /\ hOp.uri = "a.html"
    /\ htmlDocuments["a.html"] = 2
    /\ hOp.before.projectVersion = ProjectVersionOf("a.html", 2)
    /\ htmlProject.currentRootFiles = <<JQUERY_PATH, asFileName("a.html"), asFileName("lib.js")>>

(***************************************************************************)
(*                           Emmet extension                               *)
(***************************************************************************)
\* C29: after activation and any configuration changes no language id has
\* the completion provider registered more than once, the list of registered
\* languages has no duplicate, and after a configuration change every custom
\* language id of the included languages is registered.
C29_RegisteredOnce ==
    /\ \A j, k \in DOMAIN emmet.registrations :
          emmet.registrations[j][1] = emmet.registrations[k][1] => j = k
    /\ \A j, k \in DOMAIN emmet.registeredCompletionProviders :
          emmet.registeredCompletionProviders[j] = emmet.registeredCompletionProviders[k]
              => j = k
    /\ eOp.op = "configuration" /\ emmet.activated # "no" =>
          \A language \in emmet.includeLanguages \ {"html"} :
              \E k \in DOMAIN emmet.registrations :
                  emmet.registrations[k] = <<language, "DefaultCompletionItemProvider">>

(***************************************************************************)
(*                        ChatInputPart: history                           *)
(***************************************************************************)
\* C30: the history holds at most 50 entries and no two entries with the
\* same text; adding a text that is not in the history when 50 are held
\* discards the oldest entry.
C30_BoundedHistory ==
    /\ [](/\ Len(inputHistory.elements) <= 50
          /\ Len(inputHistory.elements) <= HistoryLimit
          /\ \A j, k \in DOMAIN inputHistory.elements :
                inputHistory.elements[j] = inputHistory.elements[k] => j = k)
    /\ [][LET old == inputHistory.elements
              new == inputHistory'.elements
          IN  /\ Len(old) = HistoryLimit
              /\ new # old
              /\ \A k \in DOMAIN old : old[k] # new[Len(new)]
              => new = Tail(old) \o <<new[Len(new)]>>]_vars

\* The history is full, its oldest entry is no longer the first text, and an
\* entry that was added again is the newest.
C30_Witness ==
    /\ Len(inputHistory.elements) = HistoryLimit
    /\ inputHistory.elements[1] = 3
    /\ inputHistory.elements[HistoryLimit] = 2
    /\ inputEditor.texts = HistoryLimit + 1

(***************************************************************************)
(*              scm history graph: rendering and lane carrying             *)
(***************************************************************************)
\* C31: rendering any view model produced by appendHistoryItems completes
\* without an error: the lane read for the colour of the commit's circle
\* exists and the colour index lies in the palette 0..5.
C31_RenderCompletes ==
    sOp.op = "render" =>
        /\ ~sOp.rendered.threw
        /\ sOp.rendered.circleColorIndex \in 0..(Len(graphColors) - 1)

\* The lanes of a sequence whose id differs from the given id, in order.
OtherLanes(lanes, id) == SelectSeq(lanes, LAMBDA node : node.id # id)

\* Whether the lanes of sub occur in lanes, in the same relative order.
CarriedInOrder(sub, lanes) ==
    \E f \in [DOMAIN sub -> DOMAIN lanes] :
        /\ \A i \in DOMAIN sub : lanes[f[i]] = sub[i]
        /\ \A i, j \in DOMAIN sub : i < j => f[i] < f[j]

\* What C32 says of the view models of one appendHistoryItems, given the
\* swimlanes the controller held before the call.
LanesCarried(added, before) ==
    \A k \in DOMAIN added :
        LET viewModel == added[k]
            others == OtherLanes(viewModel.inputSwimlanes, viewModel.historyItem.id)
            own == Len(viewModel.inputSwimlanes) - Len(others)
            kept == Len(viewModel.outputSwimlanes) - Len(viewModel.colors) - Len(others)
        IN  /\ CarriedInOrder(others, viewModel.outputSwimlanes)
            /\ kept \in 0..1
            /\ own = 0 => kept = 0
            /\ viewModel.inputSwimlanes =
                  IF k = 1 THEN before ELSE added[k - 1].outputSwimlanes

\* C32: for every appended item, with or without parents, the input lanes of
\* another id are carried into the output with id, colour and relative order
\* kept, the lanes of the item's own id collapse into at most one output
\* lane, and the item's input lanes are the output lanes of the item
\* appended before it.
C32_LanesCarried ==
    [][sOp'.op = "appendHistoryItems" => LanesCarried(sOp'.added, swimlanes)]_vars

(***************************************************************************)
(*                 resolveNLSConfiguration: the cache                      *)
(***************************************************************************)
\* C37: whenever a process start returns a configuration with a languagePack,
\* the messages file it names has been written completely, by this run or an
\* earlier one; a cache directory left by a failed rebuild is not reported as
\* a populated cache.
C37_MessagesFileComplete ==
    (nlsOp.op = "resolve" /\ nlsOp.settled[1] = "resolved"
        /\ nlsOp.settled[2].languagePack) =>
            nlsCache.messagesFile = "complete"

(***************************************************************************)
(*              createHtmlProject: getLanguageService and reload           *)
(***************************************************************************)
\* C38: getLanguageService calls made while a creation is pending start no
\* second creation and wait for the one language service of the pending
\* promise, and the language service delivered to a caller is not disposed at
\* the moment it is delivered.
C38_SharedAndNotDisposed ==
    /\ [][(hOp'.op = "call" /\ htmlProject.languageServicePromise # 0) =>
            /\ Len(htmlProject'.services) = Len(htmlProject.services)
            /\ htmlProject'.languageServicePromise = htmlProject.languageServicePromise]_vars
    /\ [][hOp'.op = "deliver" =>
            ~htmlProject.services[Head(htmlProject.jobs)[3]].disposed]_vars

(***************************************************************************)
(*                UtilityProcess: restart and event payloads               *)
(***************************************************************************)
\* C33: once the exit event of the instance's process has been received, a
\* start() with a response window that is not destroyed, on a platform that
\* has the utility process API, forks a new process.
C33_StartAfterExitForks ==
    [][(uOp'.op = "start" /\ didExit /\ canUseUtilityProcess
            /\ windowState[uOp'.window] = "ok")
        => (uOp'.forked /\ forkCount' = forkCount + 1)]_vars

\* C40: every exit event and every crash event the instance emits carries a
\* number as pid, the pid the spawn listener stored for the instance's
\* process, in whatever order spawn, exit and child-process-gone arrive.
C40_EventsCarryPid ==
    \A k \in DOMAIN uOp.emitted :
        uOp.emitted[k].event \in {"exit", "crash"} =>
            /\ TypeOf(uOp.emitted[k].pid) = "number"
            /\ uOp.emitted[k].pid = Num(100 + process)

(***************************************************************************)
(*               BaseWatcher: disposal race and doWatch batches            *)
(***************************************************************************)
\* C34: a poll callback delivered for a monitor whose polling watch has been
\* disposed (by a resume, by a watch() batch without the request or by
\* stop()) fires no change event, resumes nothing and calls doWatch not at
\* all, whatever stats it is delivered with.
C34_NoPollAfterDispose ==
    [][(wOp'.op = "poll" /\ monitors[wOp'.monitor].isDisposed)
        => /\ wOp'.fired = <<>>
           /\ ~wOp'.doWatch
           /\ UNCHANGED <<allWatchRequests, suspendedWatchRequests, monitors,
                          lastDoWatch>>]_vars

\* A disposed monitor was polled with stats that show the path created while
\* its request, dropped by watch(), is suspended again under a later monitor;
\* nothing was fired.
C34_Witness ==
    /\ wOp.op = "poll"
    /\ isPathNotFound(wOp.prev) /\ ~isPathNotFound(wOp.curr)
    /\ monitors[wOp.monitor].isDisposed
    /\ monitors[wOp.monitor].added = 0
    /\ wOp.fired = <<>> /\ ~wOp.doWatch
    /\ suspendedWatchRequests[wOp.request] \notin {0, wOp.monitor}

\* C35: the set handed to doWatch by watch(), by a suspension and by a resume
\* is the set of the requests of the most recent batch that are not suspended
\* at that moment: no suspended request is in it and no other request of the
\* batch is missing from it.
C35_DoWatchGetsNonSuspended ==
    wOp.doWatch =>
        /\ \A r \in lastDoWatch : r \in allWatchRequests /\ suspendedWatchRequests[r] = 0
        /\ \A r \in allWatchRequests : suspendedWatchRequests[r] = 0 => r \in lastDoWatch

\* A suspension has just called doWatch without the suspended request and
\* with another request of the batch.
C35_Witness ==
    /\ wOp.op = "fail" /\ wOp.doWatch
    /\ wOp.request \in allWatchRequests
    /\ wOp.request \notin lastDoWatch
    /\ lastDoWatch # {}

(***************************************************************************)
(*                    FileService2.resolveFile: termination                *)
(***************************************************************************)
\* C36: a resolveFile call in progress returns, for every provider with
\* finitely many directories and entries, a cycle among its directories
\* included, with and without resolveSingleChildDescendants and for every
\* resolveTo set.
C36_ResolveTerminates ==
    (treeResolve.pc = "running") ~> (treeResolve.pc = "returned")

(***************************************************************************)
(*                     PreferencesEditorContribution                       *)
(***************************************************************************)
\* C39: at most one preferences renderer is created and not disposed, and
\* such a renderer was created for the model the editor shows.
C39_OneRendererForCurrentModel ==
    LET alive == {k \in DOMAIN prefs.renderers : ~prefs.renderers[k].disposed}
    IN  /\ Cardinality(alive) <= 1
        /\ \A k \in alive : prefs.renderers[k].model = prefs.model

=========================================================================
